---- MODULE Spec2Model ----
(***************************************************************************)
(* Model of renota-app: the table parsers, the invoice-info extractor and   *)
(* the matcher of src/services/logic.ts, and the processing run of          *)
(* src/App.tsx.                                                             *)
(*                                                                          *)
(* Text is modelled character by character: a string is a sequence of       *)
(* one-character strings, and every regular expression of the source is     *)
(* written as a regex term and run by the small matcher below.              *)
(***************************************************************************)
EXTENDS Integers, Sequences, FiniteSets, TLC

(***************************************************************************)
(* Characters.                                                              *)
(***************************************************************************)
Digit == {"0", "1", "2", "3", "4", "5", "6", "7", "8", "9"}

\* \s of the regular expressions; the texts of the model use blank and newline
Space == {" ", "\n"}

LowerLetters ==
  <<"a", "b", "c", "d", "e", "f", "g", "h", "i", "j", "k", "l", "m", "n", "o",
    "p", "q", "r", "s", "t", "u", "v", "w", "x", "y", "z", "ç", "é", "í", "ã", "ú">>

UpperLetters ==
  <<"A", "B", "C", "D", "E", "F", "G", "H", "I", "J", "K", "L", "M", "N", "O",
    "P", "Q", "R", "S", "T", "U", "V", "W", "X", "Y", "Z", "Ç", "É", "Í", "Ã", "Ú">>

AsciiLetters ==
  {LowerLetters[k] : k \in 1..26} \cup {UpperLetters[k] : k \in 1..26}

\* \w of the regular expressions: ASCII letters, digits and underscore
WordChar == AsciiLetters \cup Digit \cup {"_"}

LowerSet == {LowerLetters[k] : k \in 1..Len(LowerLetters)}

UpperMap ==
  [c \in LowerSet |-> UpperLetters[CHOOSE k \in 1..Len(LowerLetters) : LowerLetters[k] = c]]

\* String.prototype.toUpperCase on one character
UpperChar(c) == IF c \in LowerSet THEN UpperMap[c] ELSE c

\* String.prototype.toUpperCase
ToUpperCase(s) == [k \in 1..Len(s) |-> UpperChar(s[k])]

(***************************************************************************)
(* Plain string helpers.                                                    *)
(***************************************************************************)
SetMax(S) == CHOOSE x \in S : \A y \in S : y <= x
SetMin(S) == CHOOSE x \in S : \A y \in S : x <= y
Min2(a, b) == IF a <= b THEN a ELSE b

\* the pieces joined with the separator between them
RECURSIVE Join(_, _)
Join(parts, sep) ==
  IF parts = <<>> THEN <<>>
  ELSE IF Len(parts) = 1 THEN parts[1]
  ELSE parts[1] \o sep \o Join(Tail(parts), sep)

\* s.startsWith(p) at position i (1-based)
MatchesAt(s, p, i) ==
  /\ i + Len(p) - 1 <= Len(s)
  /\ \A k \in 1..Len(p) : s[i + k - 1] = p[k]

\* String.prototype.includes
Includes(s, p) == \E i \in 1..(Len(s) - Len(p) + 1) : MatchesAt(s, p, i)

\* String.prototype.endsWith
EndsWith(s, p) == Len(p) <= Len(s) /\ MatchesAt(s, p, Len(s) - Len(p) + 1)

\* String.prototype.trim
Trim(s) ==
  LET keep == {k \in 1..Len(s) : s[k] \notin Space} IN
  IF keep = {} THEN <<>> ELSE SubSeq(s, SetMin(keep), SetMax(keep))

\* String.prototype.split on one separator character
RECURSIVE SplitFrom(_, _, _, _)
SplitFrom(s, sep, i, cur) ==
  IF i > Len(s) THEN <<cur>>
  ELSE IF s[i] = sep THEN <<cur>> \o SplitFrom(s, sep, i + 1, <<>>)
  ELSE SplitFrom(s, sep, i + 1, Append(cur, s[i]))

Split(s, sep) == SplitFrom(s, sep, 1, <<>>)

\* s.replace(/\s+/g, '')
StripSpaces(s) == SelectSeq(s, LAMBDA c : c \notin Space)

\* s.replace(/\s+/g, ' ')
RECURSIVE CollapseFrom(_, _)
CollapseFrom(s, i) ==
  IF i > Len(s) THEN <<>>
  ELSE IF s[i] \in Space
       THEN IF i > 1 /\ s[i - 1] \in Space
            THEN CollapseFrom(s, i + 1)
            ELSE <<" ">> \o CollapseFrom(s, i + 1)
       ELSE <<s[i]>> \o CollapseFrom(s, i + 1)

CollapseSpaces(s) == CollapseFrom(s, 1)

\* s.replace(/\./g, '')
StripDots(s) == SelectSeq(s, LAMBDA c : c /= ".")

\* s.replace(a, b) with one-character strings: the first occurrence only
ReplaceFirstChar(s, a, b) ==
  LET at == {k \in 1..Len(s) : s[k] = a} IN
  IF at = {} THEN s ELSE [s EXCEPT ![SetMin(at)] = b]

(***************************************************************************)
(* Regular expressions.  A term is a class of characters, a concatenation,  *)
(* an alternation or a bounded/unbounded repetition; Ends gives every       *)
(* position at which a match that starts at position i can end.             *)
(***************************************************************************)
Unbounded == 0 - 1

Cls(S) == <<"cls", S>>
Cat(rs) == <<"cat", rs>>
Alt(rs) == <<"alt", rs>>
Rep(r, lo, hi) == <<"rep", r, lo, hi>>
Opt(r) == Rep(r, 0, 1)
Star(r) == Rep(r, 0, Unbounded)
Plus(r) == Rep(r, 1, Unbounded)

\* a literal string under the /i flag: the characters compared in upper case
LitI(s) == <<"liti", ToUpperCase(s)>>

RECURSIVE Ends(_, _, _)
RECURSIVE CatEnds(_, _, _, _)
RECURSIVE RepEnds(_, _, _, _, _, _)

Ends(r, s, i) ==
  CASE r[1] = "cls" -> IF i <= Len(s) /\ s[i] \in r[2] THEN {i + 1} ELSE {}
    [] r[1] = "liti" ->
         IF /\ i + Len(r[2]) - 1 <= Len(s)
            /\ \A k \in 1..Len(r[2]) : UpperChar(s[i + k - 1]) = r[2][k]
         THEN {i + Len(r[2])} ELSE {}
    [] r[1] = "cat" -> CatEnds(r[2], s, {i}, 1)
    [] r[1] = "alt" -> UNION {Ends(r[2][k], s, i) : k \in 1..Len(r[2])}
    [] r[1] = "rep" -> RepEnds(r[2], s, {i}, 0, r[3], r[4])

CatEnds(rs, s, P, k) ==
  IF k > Len(rs) \/ P = {} THEN P
  ELSE CatEnds(rs, s, UNION {Ends(rs[k], s, p) : p \in P}, k + 1)

\* P: the positions reached after exactly k repetitions
RepEnds(r, s, P, k, lo, hi) ==
  LET acc == IF k >= lo THEN P ELSE {} IN
  IF P = {} \/ k = hi \/ k > Len(s) THEN acc
  ELSE acc \cup RepEnds(r, s, UNION {Ends(r, s, p) : p \in P}, k + 1, lo, hi)

\* /^r$/.test(s)
FullMatch(r, s) == (Len(s) + 1) \in Ends(r, s, 1)

\* the start of the leftmost match of r in s, 0 when there is none
RECURSIVE FirstMatchFrom(_, _, _)
FirstMatchFrom(r, s, i) ==
  IF i > Len(s) + 1 THEN 0
  ELSE IF Ends(r, s, i) /= {} THEN i
  ELSE FirstMatchFrom(r, s, i + 1)

FirstMatchStart(r, s) == FirstMatchFrom(r, s, 1)

\* /r/.test(s)
Search(r, s) == FirstMatchStart(r, s) /= 0

(***************************************************************************)
(* Numbers.  An amount is an exact count of cents: the source parses, with  *)
(* parseFloat, a decimal with two fractional digits and prints it back with *)
(* toFixed(2), toString and toLocaleString.                                 *)
(***************************************************************************)
DigitVal(c) == CHOOSE v \in 0..9 : <<"0", "1", "2", "3", "4", "5", "6", "7", "8", "9">>[v + 1] = c
DigitChar(v) == <<"0", "1", "2", "3", "4", "5", "6", "7", "8", "9">>[v + 1]

RECURSIVE DigitsToNat(_)
DigitsToNat(ds) ==
  IF ds = <<>> THEN 0
  ELSE 10 * DigitsToNat(SubSeq(ds, 1, Len(ds) - 1)) + DigitVal(ds[Len(ds)])

RECURSIVE NatToDigits(_)
NatToDigits(n) ==
  IF n < 10 THEN <<DigitChar(n)>>
  ELSE NatToDigits(n \div 10) \o <<DigitChar(n % 10)>>

TwoDigits(n) == <<DigitChar(n \div 10), DigitChar(n % 10)>>

(***************************************************************************)
(* Amounts.                                                                 *)
(***************************************************************************)
\* parseFloat(valorText.replace(/\./g, '').replace(',', '.')), in cents:
\* the text is digits, a period and two digits once the grouping is removed
ParseValor(valorText) ==
  LET t   == ReplaceFirstChar(StripDots(valorText), ",", ".")
      dot == SetMin({k \in 1..Len(t) : t[k] = "."})
  IN  100 * DigitsToNat(SubSeq(t, 1, dot - 1)) + DigitsToNat(SubSeq(t, dot + 1, Len(t)))

\* valor.toFixed(2), split at the period: <<inteiro, decimal>>
ToFixed2Parts(valor) == <<NatToDigits(valor \div 100), TwoDigits(valor % 100)>>

\* valor.toFixed(2)
ToFixed2(valor) == ToFixed2Parts(valor)[1] \o <<".">> \o ToFixed2Parts(valor)[2]

\* valor.toString(): the shortest decimal that reads back as the number
NumToString(valor) ==
  IF valor % 100 = 0 THEN NatToDigits(valor \div 100)
  ELSE IF valor % 10 = 0
       THEN NatToDigits(valor \div 100) \o <<".", DigitChar((valor % 100) \div 10)>>
       ELSE ToFixed2(valor)

\* digits grouped in threes with periods, from the right
RECURSIVE GroupThousands(_)
GroupThousands(ds) ==
  IF Len(ds) <= 3 THEN ds
  ELSE GroupThousands(SubSeq(ds, 1, Len(ds) - 3)) \o <<".">> \o SubSeq(ds, Len(ds) - 2, Len(ds))

\* valor.toLocaleString('pt-BR', {minimumFractionDigits: 2, maximumFractionDigits: 2})
ToLocalePtBR(valor) ==
  GroupThousands(NatToDigits(valor \div 100)) \o <<",">> \o TwoDigits(valor % 100)

\* parseInt(decimal) printed in a template string: leading zeros dropped
ParseIntStr(ds) == NatToDigits(DigitsToNat(ds))

(***************************************************************************)
(* Records of the reference table (TableRow).  Null stands for null and     *)
(* for an absent property; it is no character sequence.                     *)
(***************************************************************************)
Null == <<"null">>

TableRow(nf, valor, valorFormatado, descricao, tipo) ==
  [nf |-> nf, valor |-> valor, valorFormatado |-> valorFormatado,
   descricao |-> descricao, tipo |-> tipo]

\* null where a TableRow is expected (the result of a match that found nothing)
NullRow == TableRow(Null, 0, <<>>, <<>>, Null)

\* the truth value JavaScript gives a string-or-null
Truthy(x) == x /= Null /\ x /= <<>>

Servico == <<"S", "e", "r", "v", "i", "ç", "o">>

(***************************************************************************)
(* The regular expressions of the parsers.                                  *)
(***************************************************************************)
\* /^\d{7,9}$/ and /\d{7,9}/g
ReNum79 == Rep(Cls(Digit), 7, 9)

\* R?\$?\s*  and  [\d.]+,\d{2}  of /^R?\$?\s*([\d.]+,\d{2})$/
ReValorPrefix == Cat(<<Opt(Cls({"R"})), Opt(Cls({"$"})), Star(Cls(Space))>>)
ReValorPrefixI == Cat(<<Opt(Cls({"R", "r"})), Opt(Cls({"$"})), Star(Cls(Space))>>)
ReValorBody == Cat(<<Plus(Cls(Digit \cup {"."})), Cls({","}), Rep(Cls(Digit), 2, 2)>>)
ReValor == Cat(<<ReValorPrefix, ReValorBody>>)
ReValorI == Cat(<<ReValorPrefixI, ReValorBody>>)

\* /^\d+$/
ReDigits == Plus(Cls(Digit))

\* line.match(/^R?\$?\s*([\d.]+,\d{2})$/): the captured text, Null when no match
ValorMatch(line) ==
  LET P == {p \in Ends(ReValorPrefix, line, 1) : (Len(line) + 1) \in Ends(ReValorBody, line, p)} IN
  IF P = {} THEN Null ELSE SubSeq(line, SetMax(P), Len(line))

\* line.match(/R?\$?\s*([\d.]+,\d{2})/i): the capture of the leftmost match
ValorSearch(line) ==
  LET i == FirstMatchStart(ReValorI, line) IN
  IF i = 0 THEN Null
  ELSE LET P == {p \in Ends(ReValorPrefixI, line, i) : Ends(ReValorBody, line, p) /= {}}
           p == SetMax(P)
       IN  SubSeq(line, p, SetMax(Ends(ReValorBody, line, p)) - 1)

\* text.split('\n').map(line => line.trim()).filter(line => line)
TableLines(text) ==
  LET raw == Split(text, "\n") IN
  SelectSeq([k \in 1..Len(raw) |-> Trim(raw[k])], LAMBDA l : l /= <<>>)

(***************************************************************************)
(* parseTableTextShopee.                                                    *)
(***************************************************************************)
\* /^(NF-e|Número|Período de Serviço|Data de Emissão|Valor total)$/i
ReShopeeHeader ==
  Alt(<<LitI(<<"N", "F", "-", "e">>),
        LitI(<<"N", "ú", "m", "e", "r", "o">>),
        LitI(<<"P", "e", "r", "í", "o", "d", "o", " ", "d", "e", " ", "S", "e", "r", "v", "i", "ç", "o">>),
        LitI(<<"D", "a", "t", "a", " ", "d", "e", " ", "E", "m", "i", "s", "s", "ã", "o">>),
        LitI(<<"V", "a", "l", "o", "r", " ", "t", "o", "t", "a", "l">>)>>)

\* /\s+\d{7,9}\s*$/
ReTrailingNum == Cat(<<Plus(Cls(Space)), ReNum79, Star(Cls(Space))>>)

\* descricao.replace(/\s+\d{7,9}\s*$/, '')
DropTrailingNum(d) ==
  LET at == {i \in 1..Len(d) : (Len(d) + 1) \in Ends(ReTrailingNum, d, i)} IN
  IF at = {} THEN d ELSE SubSeq(d, 1, SetMin(at) - 1)

\* /^\d+\s+de\s+\w+\s*-?\s*\d*\s+de\s+\w+\s+de\s+\d{4}$/i
ReJustDate ==
  Cat(<<Plus(Cls(Digit)), Plus(Cls(Space)), LitI(<<"d", "e">>), Plus(Cls(Space)),
        Plus(Cls(WordChar)), Star(Cls(Space)), Opt(Cls({"-"})), Star(Cls(Space)),
        Star(Cls(Digit)), Plus(Cls(Space)), LitI(<<"d", "e">>), Plus(Cls(Space)),
        Plus(Cls(WordChar)), Plus(Cls(Space)), LitI(<<"d", "e">>), Plus(Cls(Space)),
        Rep(Cls(Digit), 4, 4)>>)

\* ShopeeFullLine joining whatever the next line is
ShopeeFullLineAlways(lines, i) ==
  LET line == lines[i] IN
  IF (EndsWith(line, <<"-">>) \/ EndsWith(line, <<"-", " ">>)) /\ i + 1 <= Len(lines)
  THEN <<line \o <<" ">> \o Trim(lines[i + 1]), 2>>
  ELSE <<line, 1>>

\* the join of a description line that ends in a hyphen with the next line
\* (logic.ts 167-178): <<fullLine, lines consumed>>
ShopeeFullLine(lines, i) ==
  LET line == lines[i] IN
  IF (EndsWith(line, <<"-">>) \/ EndsWith(line, <<"-", " ">>)) /\ i + 1 <= Len(lines)
  THEN LET nextLine == Trim(lines[i + 1]) IN
       IF /\ ~FullMatch(ReNum79, nextLine)
          /\ ~FullMatch(ReValor, nextLine)
          /\ ~FullMatch(ReShopeeHeader, nextLine)
       THEN <<line \o <<" ">> \o nextLine, 2>>
       ELSE <<line, 1>>
  ELSE <<line, 1>>

\* the classification loop (logic.ts 144-190); acc holds the three lists
RECURSIVE ShopeeScan(_, _, _)
ShopeeScan(lines, i, acc) ==
  IF i > Len(lines) THEN acc
  ELSE LET line == lines[i] IN
    IF FullMatch(ReShopeeHeader, line) THEN ShopeeScan(lines, i + 1, acc)
    ELSE IF FullMatch(ReNum79, line)
      THEN ShopeeScan(lines, i + 1, [acc EXCEPT !.numeros = Append(@, line)])
    ELSE IF ValorMatch(line) /= Null
      THEN ShopeeScan(lines, i + 1,
             [acc EXCEPT !.valores = Append(@, [text |-> ValorMatch(line),
                                                 num |-> ParseValor(ValorMatch(line))])])
    ELSE IF Includes(line, <<"-">>)
      THEN LET fl        == ShopeeFullLine(lines, i)
               descricao == Trim(DropTrailingNum(Trim(fl[1])))
           IN  IF Len(descricao) > 5 /\ ~FullMatch(ReJustDate, descricao)
               THEN ShopeeScan(lines, i + fl[2], [acc EXCEPT !.descricoes = Append(@, descricao)])
               ELSE ShopeeScan(lines, i + fl[2], acc)
    ELSE ShopeeScan(lines, i + 1, acc)

EmptyLists == [descricoes |-> <<>>, numeros |-> <<>>, valores |-> <<>>]

\* PairRecords stopping at the shortest of the three lists
PairRecordsShortest(acc) ==
  IF Len(acc.numeros) = 0 \/ Len(acc.valores) = 0 THEN <<>>
  ELSE [i \in 1..Min2(Min2(Len(acc.numeros), Len(acc.valores)), Len(acc.descricoes)) |->
          TableRow(acc.numeros[i], acc.valores[i].num, acc.valores[i].text,
                   acc.descricoes[i], Null)]

\* PairRecords giving one record per amount, as the Magalu parser does
PairRecordsPerAmount(acc) ==
  IF Len(acc.valores) = 0 THEN <<>>
  ELSE [i \in 1..Len(acc.valores) |->
          TableRow(IF i <= Len(acc.numeros) THEN acc.numeros[i] ELSE Null,
                   acc.valores[i].num, acc.valores[i].text,
                   IF i <= Len(acc.descricoes) THEN acc.descricoes[i] ELSE Servico,
                   Null)]

\* the pairing of the lists into records (logic.ts 192-212, 261-281)
PairRecords(acc) ==
  IF Len(acc.numeros) = 0 \/ Len(acc.valores) = 0 THEN <<>>
  ELSE [i \in 1..Min2(Len(acc.numeros), Len(acc.valores)) |->
          TableRow(acc.numeros[i], acc.valores[i].num, acc.valores[i].text,
                   IF i <= Len(acc.descricoes) THEN acc.descricoes[i] ELSE Servico,
                   Null)]

ShopeeLists(text) == ShopeeScan(TableLines(text), 1, EmptyLists)

parseTableTextShopee(text) == PairRecords(ShopeeLists(text))

(***************************************************************************)
(* parseTableTextMercadoLivre.                                              *)
(***************************************************************************)
\* /^(Conceito de faturamento|Município|Número da NF-e|Total da fatura)$/i
ReMLHeader ==
  Alt(<<LitI(<<"C", "o", "n", "c", "e", "i", "t", "o", " ", "d", "e", " ", "f", "a", "t", "u", "r", "a", "m", "e", "n", "t", "o">>),
        LitI(<<"M", "u", "n", "i", "c", "í", "p", "i", "o">>),
        LitI(<<"N", "ú", "m", "e", "r", "o", " ", "d", "a", " ", "N", "F", "-", "e">>),
        LitI(<<"T", "o", "t", "a", "l", " ", "d", "a", " ", "f", "a", "t", "u", "r", "a">>)>>)

\* /^(Curitiba|Osasco|São Paulo|Rio de Janeiro|Belo Horizonte|Governador Celso Ramos|Lauro de Freitas)$/i
municipiosComuns ==
  Alt(<<LitI(<<"C", "u", "r", "i", "t", "i", "b", "a">>),
        LitI(<<"O", "s", "a", "s", "c", "o">>),
        LitI(<<"S", "ã", "o", " ", "P", "a", "u", "l", "o">>),
        LitI(<<"R", "i", "o", " ", "d", "e", " ", "J", "a", "n", "e", "i", "r", "o">>),
        LitI(<<"B", "e", "l", "o", " ", "H", "o", "r", "i", "z", "o", "n", "t", "e">>),
        LitI(<<"G", "o", "v", "e", "r", "n", "a", "d", "o", "r", " ", "C", "e", "l", "s", "o", " ", "R", "a", "m", "o", "s">>),
        LitI(<<"L", "a", "u", "r", "o", " ", "d", "e", " ", "F", "r", "e", "i", "t", "a", "s">>)>>)

\* /^0+\d+$/
ReZeroPadded == Cat(<<Plus(Cls({"0"})), Plus(Cls(Digit))>>)

\* line.replace(/^0+/, '')
StripLeadingZeros(line) ==
  LET nz == {k \in 1..Len(line) : line[k] /= "0"} IN
  IF nz = {} THEN <<>> ELSE SubSeq(line, SetMin(nz), Len(line))

\* the classification of one line (logic.ts 225-259)
MLStep(line, acc) ==
  IF FullMatch(ReMLHeader, line) THEN acc
  ELSE IF FullMatch(ReZeroPadded, line)
    THEN [acc EXCEPT !.numeros = Append(@, StripLeadingZeros(line))]
  ELSE IF ValorMatch(line) /= Null
    THEN [acc EXCEPT !.valores = Append(@, [text |-> ValorMatch(line),
                                            num |-> ParseValor(ValorMatch(line))])]
  ELSE IF /\ ~FullMatch(ReDigits, line)
          /\ ~FullMatch(ReValor, line)
          /\ ~FullMatch(municipiosComuns, line)
          /\ ~FullMatch(ReMLHeader, line)
          /\ Len(line) > 3
    THEN [acc EXCEPT !.descricoes = Append(@, line)]
  ELSE acc

RECURSIVE MLScan(_, _, _)
MLScan(lines, i, acc) ==
  IF i > Len(lines) THEN acc ELSE MLScan(lines, i + 1, MLStep(lines[i], acc))

MLLists(text) == MLScan(TableLines(text), 1, EmptyLists)

parseTableTextMercadoLivre(text) == PairRecords(MLLists(text))

(***************************************************************************)
(* parseTableTextMagalu.                                                    *)
(***************************************************************************)
\* /^(Serviço prestado|Valor)/i: a prefix of the line
ReMagaluHeader ==
  Alt(<<LitI(<<"S", "e", "r", "v", "i", "ç", "o", " ", "p", "r", "e", "s", "t", "a", "d", "o">>),
        LitI(<<"V", "a", "l", "o", "r">>)>>)

\* the class of line.replace(/[...]/g, '') at logic.ts 317: four bullet glyphs
\* (named here, they lie outside Latin-1), the capital J and two marks
Ornaments == {"<black circle>", "<bullet>", "<black diamond>", "<white circle>", "J", "®", "©"}

\* MagaluStep accepting every amount, zero included
MagaluStepAcceptZero(line, acc) ==
  IF Ends(ReMagaluHeader, line, 1) /= {} THEN acc
  ELSE IF ValorSearch(line) /= Null
    THEN [acc EXCEPT !.valores = Append(@, [text |-> ValorSearch(line),
                                            num |-> ParseValor(ValorSearch(line))])]
  ELSE IF /\ ~FullMatch(ReDigits, line)
          /\ ~Search(ReValorI, line)
          /\ Len(line) > 2
    THEN LET cleanLine == Trim(SelectSeq(line, LAMBDA c : c \notin Ornaments)) IN
         IF Len(cleanLine) > 2
         THEN [acc EXCEPT !.descricoes = Append(@, cleanLine)]
         ELSE acc
  ELSE acc

\* the classification of one line (logic.ts 293-323)
MagaluStep(line, acc) ==
  IF Ends(ReMagaluHeader, line, 1) /= {} THEN acc
  ELSE IF ValorSearch(line) /= Null /\ ParseValor(ValorSearch(line)) > 0
    THEN [acc EXCEPT !.valores = Append(@, [text |-> ValorSearch(line),
                                            num |-> ParseValor(ValorSearch(line))])]
  ELSE IF /\ ~FullMatch(ReDigits, line)
          /\ ~Search(ReValorI, line)
          /\ Ends(ReMagaluHeader, line, 1) = {}
          /\ Len(line) > 2
    THEN LET cleanLine == Trim(SelectSeq(line, LAMBDA c : c \notin Ornaments)) IN
         IF Len(cleanLine) > 2
         THEN [acc EXCEPT !.descricoes = Append(@, cleanLine)]
         ELSE acc
  ELSE acc

RECURSIVE MagaluScan(_, _, _)
MagaluScan(lines, i, acc) ==
  IF i > Len(lines) THEN acc ELSE MagaluScan(lines, i + 1, MagaluStep(lines[i], acc))

MagaluLists(text) == MagaluScan(TableLines(text), 1, EmptyLists)

\* the records, one per amount (logic.ts 325-346)
MagaluRecords(acc) ==
  IF Len(acc.valores) = 0 THEN <<>>
  ELSE [i \in 1..Len(acc.valores) |->
          TableRow(Null, acc.valores[i].num, acc.valores[i].text,
                   IF i <= Len(acc.descricoes) THEN acc.descricoes[i] ELSE Servico,
                   Null)]

parseTableTextMagalu(text) == MagaluRecords(MagaluLists(text))

(***************************************************************************)
(* parseTableText.                                                          *)
(***************************************************************************)
parseTableText(text, marketplace) ==
  IF marketplace = "Shopee" THEN parseTableTextShopee(text)
  ELSE IF marketplace = "Mercado Livre" THEN parseTableTextMercadoLivre(text)
  ELSE IF marketplace = "Magalu" THEN parseTableTextMagalu(text)
  ELSE <<>>

(***************************************************************************)
(* extractNFInfoFromPDF.                                                    *)
(***************************************************************************)
\* [\s:]*
ReLabelSep == Star(Cls(Space \cup {":"}))

\* NFPatterns with the generic pattern tried first
NFPatternsGenericFirst ==
  <<<<Cat(<<LitI(<<"N", "o", "t", "a">>), Star(Cls(Space \cup {":"}))>>),
      Rep(Cls(Digit), 4, Unbounded)>>,
    <<Cat(<<LitI(<<"N", "ú", "m", "e", "r", "o", " ", "d", "a", " ", "N", "o", "t", "a">>),
            Star(Cls(Space \cup {":"}))>>),
      Plus(Cls(Digit))>>,
    <<Cat(<<LitI(<<"N", "ú", "m", "e", "r", "o", " ", "N", "o", "t", "a", " ", "F", "i", "s", "c", "a", "l">>),
            Star(Cls(Space \cup {":"}))>>),
      Plus(Cls(Digit))>>,
    <<Cat(<<LitI(<<"N", "º", " ", "d", "a", " ", "N", "o", "t", "a">>),
            Star(Cls(Space \cup {":"}))>>),
      Plus(Cls(Digit))>>,
    <<Cat(<<LitI(<<"N">>), Cls({"º", "o", "O"}), Opt(Cls({"."})), Star(Cls(Space)),
            LitI(<<"d", "a", " ", "N", "o", "t", "a">>), Star(Cls(Space \cup {":"}))>>),
      Plus(Cls(Digit))>>>>

\* the patterns of logic.ts 114-120, each as <<label and separator, capture>>
NFPatterns ==
  <<<<Cat(<<LitI(<<"N", "ú", "m", "e", "r", "o", " ", "d", "a", " ", "N", "o", "t", "a">>), ReLabelSep>>),
      Plus(Cls(Digit))>>,
    <<Cat(<<LitI(<<"N", "ú", "m", "e", "r", "o", " ", "N", "o", "t", "a", " ", "F", "i", "s", "c", "a", "l">>), ReLabelSep>>),
      Plus(Cls(Digit))>>,
    <<Cat(<<LitI(<<"N", "º", " ", "d", "a", " ", "N", "o", "t", "a">>), ReLabelSep>>),
      Plus(Cls(Digit))>>,
    <<Cat(<<LitI(<<"N">>), Cls({"º", "o", "O"}), Opt(Cls({"."})), Star(Cls(Space)),
            LitI(<<"d", "a", " ", "N", "o", "t", "a">>), ReLabelSep>>),
      Plus(Cls(Digit))>>,
    <<Cat(<<LitI(<<"N", "o", "t", "a">>), ReLabelSep>>),
      Rep(Cls(Digit), 4, Unbounded)>>>>

\* pdfText.match(pattern)[1]: the capture of the leftmost match, Null when
\* the pattern does not match
PatternCapture(pat, s) ==
  LET i == FirstMatchStart(Cat(<<pat[1], pat[2]>>), s) IN
  IF i = 0 THEN Null
  ELSE LET P == {p \in Ends(pat[1], s, i) : Ends(pat[2], s, p) /= {}}
           p == SetMax(P)
       IN  SubSeq(s, p, SetMax(Ends(pat[2], s, p)) - 1)

\* the document type (logic.ts 109-111)
TipoOf(pdfText) ==
  LET upper == ToUpperCase(pdfText) IN
  IF \/ Includes(upper, <<"N", "O", "T", "A", " ", "D", "E", " ", "D", "É", "B", "I", "T", "O">>)
     \/ Includes(upper, <<"N", "O", "T", "A", " ", "D", "E", " ", "D", "E", "B", "I", "T", "O">>)
  THEN <<"N", "D">>
  ELSE <<"N", "F", "S">>

\* the patterns that match, in the order of the list
MatchingPatterns(pdfText) ==
  {k \in 1..Len(NFPatterns) : Truthy(PatternCapture(NFPatterns[k], pdfText))}

extractNFInfoFromPDF(pdfText) ==
  LET hit == MatchingPatterns(pdfText) IN
  [nf   |-> IF hit = {} THEN Null ELSE PatternCapture(NFPatterns[SetMin(hit)], pdfText),
   tipo |-> TipoOf(pdfText)]

(***************************************************************************)
(* findMatchingRowMagalu.                                                   *)
(***************************************************************************)
XXXX == <<"X", "X", "X", "X">>

\* the candidates of logic.ts 371-385
MagaluValorFormats(row) ==
  LET inteiro == ToFixed2Parts(row.valor)[1]
      decimal == ToFixed2Parts(row.valor)[2]
      dec1    == ParseIntStr(decimal)
      RS      == <<"R", "$">>
      RSsp    == <<"R", "$", " ">>
  IN  <<RS \o inteiro \o <<",">> \o decimal,
        RSsp \o inteiro \o <<",">> \o decimal,
        RS \o inteiro \o <<",">> \o dec1,
        RSsp \o inteiro \o <<",">> \o dec1,
        RS \o inteiro \o <<".">> \o decimal,
        RSsp \o inteiro \o <<".">> \o decimal,
        RS \o inteiro \o <<".">> \o dec1,
        RSsp \o inteiro \o <<".">> \o dec1,
        inteiro \o <<",">> \o decimal,
        inteiro \o <<",">> \o dec1,
        inteiro \o <<".">> \o decimal,
        inteiro \o <<".">> \o dec1,
        row.valorFormatado>>

\* the test of logic.ts 390-398 on one record
MagaluValorFound(row, normalizedPdfText) ==
  LET valorFormats == MagaluValorFormats(row) IN
  \E k \in 1..Len(valorFormats) :
    Includes(normalizedPdfText, ToUpperCase(StripSpaces(valorFormats[k])))

\* the index of the record the loop of logic.ts 367-412 stops at, 0 for none
MagaluMatchIndex(pdfText, tableData) ==
  LET normalizedPdfText == ToUpperCase(StripSpaces(pdfText))
      found == {k \in 1..Len(tableData) : MagaluValorFound(tableData[k], normalizedPdfText)}
  IN  IF found = {} THEN 0 ELSE SetMin(found)

\* MagaluUpdatedRow without the placeholder
MagaluUpdatedRowNoPlaceholder(row, pdfText) ==
  LET nfInfo == extractNFInfoFromPDF(pdfText) IN
  [row EXCEPT !.nf = nfInfo.nf, !.tipo = nfInfo.tipo]

\* the copy of logic.ts 403-407
MagaluUpdatedRow(row, pdfText) ==
  LET nfInfo == extractNFInfoFromPDF(pdfText) IN
  [row EXCEPT !.nf = IF Truthy(nfInfo.nf) THEN nfInfo.nf ELSE XXXX,
              !.tipo = nfInfo.tipo]

\* MagaluTableAfter when identifier and type are written into the record itself
MagaluTableAfterInPlace(pdfText, tableData) ==
  LET k == MagaluMatchIndex(pdfText, tableData) IN
  IF k = 0 THEN tableData
  ELSE [tableData EXCEPT ![k] =
          [@ EXCEPT !.nf = IF Truthy(extractNFInfoFromPDF(pdfText).nf)
                           THEN extractNFInfoFromPDF(pdfText).nf ELSE XXXX,
                    !.tipo = extractNFInfoFromPDF(pdfText).tipo]]

\* what the call leaves in the record set: the match is built on a copy
MagaluTableAfter(pdfText, tableData) == tableData

findMatchingRowMagalu(pdfText, tableData) ==
  LET k == MagaluMatchIndex(pdfText, tableData) IN
  IF k = 0 THEN [row |-> NullRow, via |-> "none"]
  ELSE [row |-> MagaluUpdatedRow(tableData[k], pdfText), via |-> "magalu"]

(***************************************************************************)
(* findMatchingRow.  The result carries the strategy that produced it: the  *)
(* source names it in the log line written before each return.              *)
(***************************************************************************)
\* fileName.match(/\d{7,9}/g): greedy matches, left to right, not overlapping
RECURSIVE FileNameNumbersFrom(_, _)
FileNameNumbersFrom(fileName, i) ==
  IF i > Len(fileName) THEN <<>>
  ELSE LET E == Ends(ReNum79, fileName, i) IN
       IF E = {} THEN FileNameNumbersFrom(fileName, i + 1)
       ELSE <<SubSeq(fileName, i, SetMax(E) - 1)>> \o FileNameNumbersFrom(fileName, SetMax(E))

FileNameNumbers(fileName) == FileNameNumbersFrom(fileName, 1)

\* the amount renderings of logic.ts 441-447 and 469-475
ValorFormats(row) ==
  <<row.valorFormatado,
    ReplaceFirstChar(ToFixed2(row.valor), ".", ","),
    ToLocalePtBR(row.valor),
    ReplaceFirstChar(NumToString(row.valor), ".", ","),
    ToFixed2(row.valor)>>

\* the test of logic.ts 452-459 and 480-487 on one record
ValorFound(row, normalizedPdfText) ==
  LET valorFormats == ValorFormats(row) IN
  \E k \in 1..Len(valorFormats) :
    Includes(normalizedPdfText, StripSpaces(valorFormats[k]))

\* row.nf && normalizedPdfText.includes(row.nf)
NfFound(row, normalizedPdfText) ==
  Truthy(row.nf) /\ Includes(normalizedPdfText, row.nf)

FirstOf(S) == IF S = {} THEN 0 ELSE SetMin(S)

\* strategy 1 (logic.ts 425-434): the index of the record, 0 for none
ByFileName(tableData, fileName) ==
  LET nums == FileNameNumbers(fileName)
      hits == {n \in 1..Len(nums) : \E k \in 1..Len(tableData) : tableData[k].nf = nums[n]}
  IN  IF hits = {} THEN 0
      ELSE FirstOf({k \in 1..Len(tableData) : tableData[k].nf = nums[SetMin(hits)]})

\* ByNfValor without the test of the amount
ByNfValorIdOnly(tableData, normalizedPdfText) ==
  FirstOf({k \in 1..Len(tableData) : NfFound(tableData[k], normalizedPdfText)})

\* strategy 2 (logic.ts 436-466)
ByNfValor(tableData, normalizedPdfText) ==
  FirstOf({k \in 1..Len(tableData) :
             /\ NfFound(tableData[k], normalizedPdfText)
             /\ ValorFound(tableData[k], normalizedPdfText)})

\* ByValor looking for the displayed amount only
ByValorDisplayOnly(tableData, normalizedPdfText) ==
  FirstOf({k \in 1..Len(tableData) :
             Includes(normalizedPdfText, StripSpaces(tableData[k].valorFormatado))})

\* strategy 3 (logic.ts 468-493)
ByValor(tableData, normalizedPdfText) ==
  FirstOf({k \in 1..Len(tableData) : ValorFound(tableData[k], normalizedPdfText)})

\* strategy 4 (logic.ts 495-500)
ByNf(tableData, normalizedPdfText) ==
  FirstOf({k \in 1..Len(tableData) : NfFound(tableData[k], normalizedPdfText)})

\* the cascade with the file name consulted after the text
findMatchingRowCascadeTextFirst(pdfText, tableData, fileName) ==
  LET normalizedPdfText == ToUpperCase(CollapseSpaces(pdfText))
      k1 == ByFileName(tableData, fileName)
      k2 == ByNfValor(tableData, normalizedPdfText)
      k3 == ByValor(tableData, normalizedPdfText)
      k4 == ByNf(tableData, normalizedPdfText)
  IN  IF k2 /= 0 THEN [row |-> tableData[k2], via |-> "nfValor"]
      ELSE IF k3 /= 0 THEN [row |-> tableData[k3], via |-> "valor"]
      ELSE IF k4 /= 0 THEN [row |-> tableData[k4], via |-> "nf"]
      ELSE IF k1 /= 0 THEN [row |-> tableData[k1], via |-> "fileName"]
      ELSE [row |-> NullRow, via |-> "none"]

\* the cascade with the identifier-only strategy before the amount-only one
findMatchingRowCascadeNfBeforeValor(pdfText, tableData, fileName) ==
  LET normalizedPdfText == ToUpperCase(CollapseSpaces(pdfText))
      k1 == ByFileName(tableData, fileName)
      k2 == ByNfValor(tableData, normalizedPdfText)
      k3 == ByValor(tableData, normalizedPdfText)
      k4 == ByNf(tableData, normalizedPdfText)
  IN  IF k1 /= 0 THEN [row |-> tableData[k1], via |-> "fileName"]
      ELSE IF k2 /= 0 THEN [row |-> tableData[k2], via |-> "nfValor"]
      ELSE IF k4 /= 0 THEN [row |-> tableData[k4], via |-> "nf"]
      ELSE IF k3 /= 0 THEN [row |-> tableData[k3], via |-> "valor"]
      ELSE [row |-> NullRow, via |-> "none"]

\* the cascade with the amount-only strategy before the identifier-and-amount one
findMatchingRowCascadeAmountFirst(pdfText, tableData, fileName) ==
  LET normalizedPdfText == ToUpperCase(CollapseSpaces(pdfText))
      k1 == ByFileName(tableData, fileName)
      k2 == ByNfValor(tableData, normalizedPdfText)
      k3 == ByValor(tableData, normalizedPdfText)
      k4 == ByNf(tableData, normalizedPdfText)
  IN  IF k1 /= 0 THEN [row |-> tableData[k1], via |-> "fileName"]
      ELSE IF k3 /= 0 THEN [row |-> tableData[k3], via |-> "valor"]
      ELSE IF k2 /= 0 THEN [row |-> tableData[k2], via |-> "nfValor"]
      ELSE IF k4 /= 0 THEN [row |-> tableData[k4], via |-> "nf"]
      ELSE [row |-> NullRow, via |-> "none"]

\* the cascade of the variants other than Magalu (logic.ts 423-502)
findMatchingRowCascade(pdfText, tableData, fileName) ==
  LET normalizedPdfText == ToUpperCase(CollapseSpaces(pdfText))
      k1 == ByFileName(tableData, fileName)
      k2 == ByNfValor(tableData, normalizedPdfText)
      k3 == ByValor(tableData, normalizedPdfText)
      k4 == ByNf(tableData, normalizedPdfText)
  IN  IF k1 /= 0 THEN [row |-> tableData[k1], via |-> "fileName"]
      ELSE IF k2 /= 0 THEN [row |-> tableData[k2], via |-> "nfValor"]
      ELSE IF k3 /= 0 THEN [row |-> tableData[k3], via |-> "valor"]
      ELSE IF k4 /= 0 THEN [row |-> tableData[k4], via |-> "nf"]
      ELSE [row |-> NullRow, via |-> "none"]

findMatchingRow(pdfText, tableData, fileName, marketplace) ==
  IF marketplace = "Magalu"
  THEN findMatchingRowMagalu(pdfText, tableData)
  ELSE findMatchingRowCascade(pdfText, tableData, fileName)

(***************************************************************************)
(* extractTextFromPDF.  A file carries the text its text layer holds and    *)
(* the text the OCR service reads from it; reading and OCR may each fail.   *)
(***************************************************************************)
MinTextLen == 50

File(name, text, ocr) == [name |-> name, text |-> text, ocr |-> ocr]

LogEntry(type, at) == [type |-> type, at |-> at]

\* logic.ts 85: the text layer is too short under Magalu, OCR is consulted
NeedsOcr(fullText, marketplace) ==
  marketplace = "Magalu" /\ Len(Trim(fullText)) < MinTextLen

\* logic.ts 91-97: what extractTextFromPDF returns once the OCR call is back
AfterOcr(fullText, ocrText) == IF Len(ocrText) > 0 THEN ocrText ELSE fullText

\* logic.ts 91-97 and 65-67: the log lines of the OCR branch
AfterOcrLogs(ocrText, ocrOk) ==
  (IF ocrOk THEN <<>> ELSE <<LogEntry("error", "logic.ts:66")>>)
  \o (IF Len(ocrText) > 0 THEN <<LogEntry("success", "logic.ts:92")>>
      ELSE <<LogEntry("error", "logic.ts:95")>>)

(***************************************************************************)
(* The inputs of the processing run.                                        *)
(***************************************************************************)
Marketplaces == {"Shopee", "Mercado Livre", "Magalu"}
Unidades == {"Ninja PR", "Ninja SC"}

TableTexts ==
  {<<"V", "a", "l", "o", "r", " ", "t", "o", "t", "a", "l", "\n", "0", "0", "0", "1", "2", "3", "4", "5", "6", "7", "\n", "1", "2", "3", "4", "5", "6", "7", "\n", "R", "$", " ", "1", "5", "0", ",", "0", "0", "\n", "S", "e", "r", "v", "i", "ç", "o", " ", "-", " ", "d", "e", " ", "L", "i", "m", "p", "e", "z", "a">>,
   <<"V", "a", "l", "o", "r", " ", "t", "o", "t", "a", "l">>}

PdfPool ==
  {File(<<"N", "F", "_", "1", "2", "3", "4", "5", "6", "7", ".", "p", "d", "f">>,
        <<"N", "F", " ", "1", "2", "3", "4", "5", "6", "7", " ", "R", "$", " ", "1", "5", "0", ",", "0", "0">>,
        <<"N", "o", "t", "a", " ", "4", "3", "2", "1", " ", "R", "$", "1", "5", "0", ",", "0", "0">>),
   File(<<"d", "o", "c", ".", "p", "d", "f">>,
        <<"N", "O", "T", "A", " ", "D", "E", " ", "D", "E", "B", "I", "T", "O", " ", "N", "ú", "m", "e", "r", "o", " ", "d", "a", " ", "N", "o", "t", "a", ":", " ", "9", "8", "7", "6", " ", "V", "a", "l", "o", "r", " ", "R", "$", " ", "1", "5", "0", ",", "0", "0">>,
        <<>>)}

MaxPdfs == 2
MaxRuns == 2
\* the handlers of the page that may run while one processDocuments call is in progress
MaxEdits == 1

(***************************************************************************)
(* The state of App (App.tsx 10-21) and of the processDocuments call in     *)
(* progress.  theme, progress and showLog only drive the display and are    *)
(* left out.                                                                *)
(***************************************************************************)
VARIABLES
  marketplace,   \* App.tsx 10
  unidade,       \* App.tsx 11
  tableFile,     \* App.tsx 14: TRUE when an image is selected
  pdfFiles,      \* App.tsx 15
  processing,    \* App.tsx 18
  logs,          \* App.tsx 20
  results,       \* App.tsx 21
  pc,            \* where the processDocuments call stands: idle, ocr, pdf, pdfocr
  cap,           \* what the closure of the call captured: marketplace, unidade, pdfFiles
  tableData,     \* App.tsx 142
  newResults,    \* App.tsx 151
  idx,           \* App.tsx 153: the loop index, 1-based
  fullText,      \* logic.ts 75: the text layer read, while OCR is awaited
  hist,          \* history of the current run: calls made and how it ended
  runs,          \* number of runs started
  fn             \* a direct call of parseTableText or findMatchingRow (SpecParse, SpecMatch)

vars == <<marketplace, unidade, tableFile, pdfFiles, processing, logs, results,
          pc, cap, tableData, newResults, idx, fullText, hist, runs, fn>>

appVars == <<marketplace, unidade, tableFile, pdfFiles, processing, logs, results>>
runVars == <<pc, cap, tableData, newResults, idx, fullText, runs>>

NoCap == [marketplace |-> "", unidade |-> "", pdfFiles |-> <<>>]
NoHist == [nOcr |-> 0, nParse |-> 0, nPdf |-> 0, nMatch |-> 0, outcome |-> "none",
           parsed |-> <<>>, texts |-> <<>>, edits |-> 0]
NoFn == [op |-> "none"]

AppInit ==
  /\ marketplace = "Shopee"
  /\ unidade = "Ninja PR"
  /\ tableFile = FALSE
  /\ pdfFiles = <<>>
  /\ processing = FALSE
  /\ logs = <<>>
  /\ results = <<>>
  /\ pc = "idle"
  /\ cap = NoCap
  /\ tableData = <<>>
  /\ newResults = <<>>
  /\ idx = 0
  /\ fullText = <<>>
  /\ hist = NoHist
  /\ runs = 0

Init == AppInit /\ fn = NoFn

(***************************************************************************)
(* The handlers of App.                                                     *)
(***************************************************************************)
\* App.tsx 69-78, 96-105
handleTableUpload ==
  /\ tableFile' = TRUE
  /\ UNCHANGED <<marketplace, unidade, pdfFiles, processing, logs, results, runVars, fn>>

\* App.tsx 80-85, 107-114
handlePdfUpload(f) ==
  /\ Len(pdfFiles) < MaxPdfs
  /\ pdfFiles' = Append(pdfFiles, f)
  /\ UNCHANGED <<marketplace, unidade, tableFile, processing, logs, results, runVars, fn>>

\* App.tsx 116
clearTable ==
  /\ tableFile' = FALSE
  /\ UNCHANGED <<marketplace, unidade, pdfFiles, processing, logs, results, runVars, fn>>

\* App.tsx 117
clearPdfs ==
  /\ pdfFiles' = <<>>
  /\ UNCHANGED <<marketplace, unidade, tableFile, processing, logs, results, runVars, fn>>

\* App.tsx 118-125
resetAll ==
  /\ tableFile' = FALSE
  /\ pdfFiles' = <<>>
  /\ results' = <<>>
  /\ logs' = <<>>
  /\ UNCHANGED <<marketplace, unidade, processing, runVars, fn>>

\* App.tsx 263
setMarketplace(m) ==
  /\ marketplace' = m
  /\ UNCHANGED <<unidade, tableFile, pdfFiles, processing, logs, results, runVars, fn>>

\* App.tsx 278
setUnidade(u) ==
  /\ unidade' = u
  /\ UNCHANGED <<marketplace, tableFile, pdfFiles, processing, logs, results, runVars, fn>>

(***************************************************************************)
(* processDocuments (App.tsx 127-194), one action per stretch of code       *)
(* between two awaits.                                                      *)
(***************************************************************************)
\* the log lines of parseTableText and of the parser it calls, given the
\* number n of records it returns: the entry line, then the error line of an
\* empty result or one line per record (the per-line lines of the
\* classification loops are left out)
ParseLogs(n, m) ==
  IF m \notin Marketplaces THEN <<LogEntry("error", "logic.ts:357")>>
  ELSE <<LogEntry("info", "logic.ts:parse")>>
       \o (IF n = 0 THEN <<LogEntry("error", "logic.ts:parse-empty")>>
           ELSE [k \in 1..n |-> LogEntry("success", "logic.ts:record")])

\* the log lines of findMatchingRow for its result m; nfFound tells whether
\* extractNFInfoFromPDF found a number
MatchLogs(m, nfFound, mk) ==
  CASE m.via = "fileName" -> <<LogEntry("success", "logic.ts:430")>>
    [] m.via = "nfValor"  -> <<LogEntry("success", "logic.ts:462")>>
    [] m.via = "valor"    -> <<LogEntry("info", "logic.ts:490")>>
    [] m.via = "nf"       -> <<LogEntry("info", "logic.ts:497")>>
    [] m.via = "magalu"   ->
         <<LogEntry("info", "logic.ts:363"),
           IF nfFound THEN LogEntry("info", "logic.ts:125") ELSE LogEntry("error", "logic.ts:130"),
           LogEntry("success", "logic.ts:409")>>
    [] OTHER ->
         IF mk = "Magalu"
         THEN <<LogEntry("info", "logic.ts:363"), LogEntry("error", "logic.ts:414")>>
         ELSE <<>>

\* TableIsEmpty when the length of the record set is not looked at
TableIsEmptyNever(td) == FALSE

\* App.tsx 144
TableIsEmpty(td) == Len(td) = 0

\* NewName with the amount left as toFixed(2) gives it, with a decimal point
NewNameDot(row, mk, un) ==
  (IF Truthy(row.tipo) THEN row.tipo ELSE <<"N", "F", "S">>)
  \o <<" ">> \o row.nf \o <<" ", "-", " ">> \o row.descricao
  \o <<" ", "-", " ", "R", "$">> \o ToFixed2(row.valor)
  \o <<" ", "-", " ", mk, " ", "-", " ", un, ".", "p", "d", "f">>

\* App.tsx 164-165
NewName(row, mk, un) ==
  (IF Truthy(row.tipo) THEN row.tipo ELSE <<"N", "F", "S">>)
  \o <<" ">> \o row.nf \o <<" ", "-", " ">> \o row.descricao
  \o <<" ", "-", " ", "R", "$">> \o ReplaceFirstChar(ToFixed2(row.valor), ".", ",")
  \o <<" ", "-", " ", mk, " ", "-", " ", un, ".", "p", "d", "f">>

\* App.tsx 163-184: the ProcessingResult of one file
ResultOf(file, m, mk, un) ==
  IF m.row /= NullRow
  THEN [originalName |-> file.name, newName |-> NewName(m.row, mk, un),
        file |-> file, matched |-> TRUE]
  ELSE [originalName |-> file.name, newName |-> file.name,
        file |-> file, matched |-> FALSE]

\* what a findMatchingRow call leaves in the record set it was given
TableAfterMatch(pdfText, td, mk) ==
  IF mk = "Magalu" THEN MagaluTableAfter(pdfText, td) ELSE td

\* processDocuments callable while an earlier call is still in progress
processDocumentsUnguarded ==
  /\ tableFile /\ Len(pdfFiles) /= 0
  /\ runs < MaxRuns
  /\ processing' = TRUE
  /\ results' = <<>>
  /\ logs' = <<LogEntry("info", "App.tsx:135"), LogEntry("info", "logic.ts:8")>>
  /\ pc' = "ocr"
  /\ cap' = [marketplace |-> marketplace, unidade |-> unidade, pdfFiles |-> pdfFiles]
  /\ tableData' = <<>>
  /\ newResults' = <<>>
  /\ idx' = 0
  /\ fullText' = <<>>
  /\ hist' = [NoHist EXCEPT !.nOcr = 1, !.outcome = "running"]
  /\ runs' = runs + 1
  /\ UNCHANGED <<marketplace, unidade, tableFile, pdfFiles, fn>>

\* processDocuments without the setResults([]) of its start
processDocumentsKeepResults ==
  /\ tableFile /\ Len(pdfFiles) /= 0
  /\ ~processing
  /\ runs < MaxRuns
  /\ processing' = TRUE
  /\ results' = results
  /\ logs' = <<LogEntry("info", "App.tsx:135"), LogEntry("info", "logic.ts:8")>>
  /\ pc' = "ocr"
  /\ cap' = [marketplace |-> marketplace, unidade |-> unidade, pdfFiles |-> pdfFiles]
  /\ tableData' = <<>>
  /\ newResults' = <<>>
  /\ idx' = 0
  /\ fullText' = <<>>
  /\ hist' = [NoHist EXCEPT !.nOcr = 1, !.outcome = "running"]
  /\ runs' = runs + 1
  /\ UNCHANGED <<marketplace, unidade, tableFile, pdfFiles, fn>>

\* App.tsx 127-139, up to the await of the table OCR
processDocuments ==
  /\ tableFile /\ Len(pdfFiles) /= 0
  /\ ~processing
  /\ runs < MaxRuns
  /\ processing' = TRUE
  /\ results' = <<>>
  /\ logs' = <<LogEntry("info", "App.tsx:135"), LogEntry("info", "logic.ts:8")>>
  /\ pc' = "ocr"
  /\ cap' = [marketplace |-> marketplace, unidade |-> unidade, pdfFiles |-> pdfFiles]
  /\ tableData' = <<>>
  /\ newResults' = <<>>
  /\ idx' = 0
  /\ fullText' = <<>>
  /\ hist' = [NoHist EXCEPT !.nOcr = 1, !.outcome = "running"]
  /\ runs' = runs + 1
  /\ UNCHANGED <<marketplace, unidade, tableFile, pdfFiles, fn>>

\* OcrFail without the log call of the catch of extractTextFromImage
OcrFailUnlogged ==
  /\ pc = "ocr"
  /\ logs' = logs \o <<LogEntry("error", "App.tsx:189")>>
  /\ processing' = FALSE
  /\ pc' = "idle"
  /\ hist' = [hist EXCEPT !.outcome = "ocrFailed"]
  /\ UNCHANGED <<marketplace, unidade, tableFile, pdfFiles, results,
                 cap, tableData, newResults, idx, fullText, runs, fn>>

\* OcrFail with one more attempt of the table OCR before the run gives up
OcrFailRetry ==
  /\ pc = "ocr"
  /\ IF hist.nOcr < 2
     THEN /\ logs' = logs \o <<LogEntry("error", "logic.ts:35"), LogEntry("info", "logic.ts:8")>>
          /\ hist' = [hist EXCEPT !.nOcr = @ + 1]
          /\ UNCHANGED <<processing, pc>>
     ELSE /\ logs' = logs \o <<LogEntry("error", "logic.ts:35"), LogEntry("error", "App.tsx:189")>>
          /\ processing' = FALSE
          /\ pc' = "idle"
          /\ hist' = [hist EXCEPT !.outcome = "ocrFailed"]
  /\ UNCHANGED <<marketplace, unidade, tableFile, pdfFiles, results,
                 cap, tableData, newResults, idx, fullText, runs, fn>>

\* logic.ts 34-37 and App.tsx 188-193: the table OCR fails, the run aborts
OcrFail ==
  /\ pc = "ocr"
  /\ logs' = logs \o <<LogEntry("error", "logic.ts:35"), LogEntry("error", "App.tsx:189")>>
  /\ processing' = FALSE
  /\ pc' = "idle"
  /\ hist' = [hist EXCEPT !.outcome = "ocrFailed"]
  /\ UNCHANGED <<marketplace, unidade, tableFile, pdfFiles, results,
                 cap, tableData, newResults, idx, fullText, runs, fn>>

\* AfterParse whose abort on an empty record set skips the finally block
AfterParseNoFinally(td, l1) ==
  IF TableIsEmpty(td)
  THEN /\ logs' = l1 \o <<LogEntry("error", "App.tsx:189")>>
       /\ processing' = processing
       /\ pc' = "idle"
       /\ hist' = [hist EXCEPT !.nParse = @ + 1, !.outcome = "emptyTable"]
       /\ UNCHANGED <<tableData, idx>>
  ELSE /\ logs' = l1 \o <<LogEntry("success", "App.tsx:148"), LogEntry("info", "App.tsx:158")>>
       /\ processing' = processing
       /\ pc' = "pdf"
       /\ tableData' = td
       /\ idx' = 1
       /\ hist' = [hist EXCEPT !.nParse = @ + 1, !.nPdf = @ + 1, !.parsed = td]

\* App.tsx 144-160: the records td are back from parseTableText; the run
\* aborts on an empty record set or enters the loop
AfterParse(td, l1) ==
  IF TableIsEmpty(td)
  THEN /\ logs' = l1 \o <<LogEntry("error", "App.tsx:189")>>
       /\ processing' = FALSE
       /\ pc' = "idle"
       /\ hist' = [hist EXCEPT !.nParse = @ + 1, !.outcome = "emptyTable"]
       /\ UNCHANGED <<tableData, idx>>
  ELSE /\ logs' = l1 \o <<LogEntry("success", "App.tsx:148"), LogEntry("info", "App.tsx:158")>>
       /\ processing' = processing
       /\ pc' = "pdf"
       /\ tableData' = td
       /\ idx' = 1
       /\ hist' = [hist EXCEPT !.nParse = @ + 1, !.nPdf = @ + 1, !.parsed = td]

OcrParsed(td) ==
  AfterParse(td, logs \o <<LogEntry("success", "logic.ts:32")>>
                      \o ParseLogs(Len(td), cap.marketplace))

\* logic.ts 31-33 and App.tsx 142-160: the table text is back and is parsed
OcrDone(text) ==
  /\ pc = "ocr"
  /\ OcrParsed(parseTableText(text, cap.marketplace))
  /\ UNCHANGED <<marketplace, unidade, tableFile, pdfFiles, results,
                 cap, newResults, fullText, runs, fn>>

\* PushResult with the result put in front of the list instead of at its end
PushResultPrepend(r, l2, h, td) ==
  /\ tableData' = td
  /\ fullText' = <<>>
  /\ newResults' = <<r>> \o newResults
  /\ IF idx < Len(cap.pdfFiles)
     THEN /\ idx' = idx + 1
          /\ logs' = l2 \o <<LogEntry("info", "App.tsx:158")>>
          /\ pc' = "pdf"
          /\ hist' = [h EXCEPT !.nPdf = @ + 1]
          /\ UNCHANGED <<results, processing>>
     ELSE /\ results' = <<r>> \o newResults
          /\ processing' = FALSE
          /\ logs' = l2
          /\ pc' = "idle"
          /\ hist' = [h EXCEPT !.outcome = "completed"]
          /\ idx' = idx
  /\ UNCHANGED <<marketplace, unidade, tableFile, pdfFiles, cap, runs, fn>>

\* App.tsx 163-186: the result r of file idx is pushed, and the loop goes on
\* to the next file or the run ends
PushResult(r, l2, h, td) ==
  /\ tableData' = td
  /\ fullText' = <<>>
  /\ newResults' = Append(newResults, r)
  /\ IF idx < Len(cap.pdfFiles)
     THEN /\ idx' = idx + 1
          /\ logs' = l2 \o <<LogEntry("info", "App.tsx:158")>>
          /\ pc' = "pdf"
          /\ hist' = [h EXCEPT !.nPdf = @ + 1]
          /\ UNCHANGED <<results, processing>>
     ELSE /\ results' = Append(newResults, r)
          /\ processing' = FALSE
          /\ logs' = l2
          /\ pc' = "idle"
          /\ hist' = [h EXCEPT !.outcome = "completed"]
          /\ idx' = idx
  /\ UNCHANGED <<marketplace, unidade, tableFile, pdfFiles, cap, runs, fn>>

\* App.tsx 163-184: the result of the match m of file idx
Matched(pdfText, l1, m, r) ==
  PushResult(r,
             l1 \o MatchLogs(m, m.row.nf /= XXXX, cap.marketplace)
                \o <<IF r.matched THEN LogEntry("success", "App.tsx:174")
                     ELSE LogEntry("error", "App.tsx:183")>>,
             [hist EXCEPT !.nMatch = @ + 1, !.texts = Append(@, pdfText)],
             TableAfterMatch(pdfText, tableData, cap.marketplace))

\* MatchedRow naming the file after the marketplace selected on the page when
\* the result is built instead of the one the call started with
MatchedRowLive(pdfText, l1, m) ==
  Matched(pdfText, l1, m, ResultOf(cap.pdfFiles[idx], m, marketplace, cap.unidade))

MatchedRow(pdfText, l1, m) ==
  Matched(pdfText, l1, m, ResultOf(cap.pdfFiles[idx], m, cap.marketplace, cap.unidade))

\* App.tsx 160-161: the text of file idx is known and is matched
FinishPdf(pdfText, l1) ==
  MatchedRow(pdfText, l1,
             findMatchingRow(pdfText, tableData, cap.pdfFiles[idx].name, cap.marketplace))

\* PdfReadFail with the error thrown on to processDocuments, which ends the run
PdfReadFailAbort ==
  /\ pc = "pdf"
  /\ logs' = logs \o <<LogEntry("error", "logic.ts:102"), LogEntry("error", "App.tsx:189")>>
  /\ processing' = FALSE
  /\ pc' = "idle"
  /\ UNCHANGED <<marketplace, unidade, tableFile, pdfFiles, results,
                 cap, tableData, newResults, idx, fullText, hist, runs, fn>>

\* logic.ts 101-104: reading the file throws, its text is the empty string
PdfReadFail ==
  /\ pc = "pdf"
  /\ FinishPdf(<<>>, logs \o <<LogEntry("error", "logic.ts:102")>>)

\* logic.ts 73-100 without the OCR branch: the text layer is returned
PdfRead ==
  /\ pc = "pdf"
  /\ ~NeedsOcr(cap.pdfFiles[idx].text, cap.marketplace)
  /\ FinishPdf(cap.pdfFiles[idx].text, logs)

\* logic.ts 73-89: the text layer is short under Magalu, OCR is awaited
PdfReadShort ==
  /\ pc = "pdf"
  /\ NeedsOcr(cap.pdfFiles[idx].text, cap.marketplace)
  /\ pc' = "pdfocr"
  /\ fullText' = cap.pdfFiles[idx].text
  /\ logs' = logs \o <<LogEntry("info", "logic.ts:86")>>
  /\ UNCHANGED <<marketplace, unidade, tableFile, pdfFiles, processing, results,
                 cap, tableData, newResults, idx, hist, runs, fn>>

\* logic.ts 40-69 and 91-97: the OCR of the file answers or fails
PdfOcrDone(ocrOk) ==
  /\ pc = "pdfocr"
  /\ LET ocrText == IF ocrOk THEN cap.pdfFiles[idx].ocr ELSE <<>> IN
     FinishPdf(AfterOcr(fullText, ocrText), logs \o AfterOcrLogs(ocrText, ocrOk))

\* a handler of the page; those that run during a processDocuments call are counted
UserStep ==
  /\ IF processing
     THEN hist.edits < MaxEdits /\ hist' = [hist EXCEPT !.edits = @ + 1]
     ELSE hist' = hist
  /\ \/ handleTableUpload
     \/ \E f \in PdfPool : handlePdfUpload(f)
     \/ clearTable
     \/ clearPdfs
     \/ resetAll
     \/ \E m \in Marketplaces : setMarketplace(m)
     \/ \E u \in Unidades : setUnidade(u)

RunStep ==
  \/ processDocuments
  \/ OcrFail
  \/ \E text \in TableTexts : OcrDone(text)
  \/ PdfReadFail
  \/ PdfRead
  \/ PdfReadShort
  \/ \E ocrOk \in BOOLEAN : PdfOcrDone(ocrOk)

Next == UserStep \/ RunStep

Spec == Init /\ [][Next]_vars

\* C1: no PDF is text-extracted or matched, and no result is produced, unless
\* the table OCR succeeded and parseTableText returned at least one record; a
\* run whose table OCR fails or whose record set is empty (as it is for every
\* table text under a marketplace parseTableText does not know) has ended
\* without a call of extractTextFromPDF or findMatchingRow and without a result
C1_NoPdfWithoutRecords ==
  /\ (hist.nPdf > 0 \/ hist.nMatch > 0 \/ newResults /= <<>> \/ results /= <<>>) =>
       (hist.nOcr = 1 /\ hist.nParse = 1 /\ Len(hist.parsed) > 0
        /\ hist.outcome \in {"running", "completed"})
  /\ hist.outcome \in {"ocrFailed", "emptyTable"} =>
       /\ ~processing /\ pc = "idle"
       /\ hist.nPdf = 0 /\ hist.nMatch = 0
       /\ newResults = <<>> /\ results = <<>>
  /\ hist.outcome = "ocrFailed" => hist.nParse = 0
  /\ hist.outcome = "emptyTable" => (hist.nParse = 1 /\ hist.parsed = <<>>)
  /\ \A t \in TableTexts : parseTableText(t, "Outro") = <<>>

\* C1 witness: a run with two PDFs has ended on an empty record set
C1_Witness ==
  /\ hist.outcome = "emptyTable"
  /\ Len(cap.pdfFiles) = 2
  /\ hist.nOcr = 1 /\ hist.nParse = 1
  /\ hist.nPdf = 0
  /\ results = <<>>

\* C10: the record set stays as parsed through every findMatchingRow call of a
\* run, the Magalu path included; the result pushed for a PDF is the one the
\* matcher gives for that PDF's text and file name on the record set as
\* parsed, whatever was processed before it, so that two PDFs with the same
\* text and file name get the same result and several PDFs may match the same
\* record
C10_RecordSetReadOnly ==
  /\ [](/\ hist.nPdf > 0 => tableData = hist.parsed
        /\ Len(hist.texts) = Len(newResults)
        /\ \A i, j \in 1..Len(newResults) :
             (/\ hist.texts[i] = hist.texts[j]
              /\ newResults[i].originalName = newResults[j].originalName)
               => (/\ newResults[i].matched = newResults[j].matched
                   /\ newResults[i].newName = newResults[j].newName))
  /\ [][Len(newResults') = Len(newResults) + 1 =>
          /\ tableData' = hist.parsed
          /\ newResults'[Len(newResults')] =
               ResultOf(cap.pdfFiles[idx],
                        findMatchingRow(hist'.texts[Len(newResults')], hist.parsed,
                                        cap.pdfFiles[idx].name, cap.marketplace),
                        cap.marketplace, cap.unidade)]_vars

\* C10 witness: a Magalu run has ended in which two different PDFs both
\* matched the only record of the set
C10_Witness ==
  /\ hist.outcome = "completed"
  /\ cap.marketplace = "Magalu"
  /\ Len(hist.parsed) = 1
  /\ tableData = hist.parsed
  /\ Len(results) = 2
  /\ results[1].matched /\ results[2].matched
  /\ results[1].originalName /= results[2].originalName

\* C11: within a run the PDFs are processed one after another in the order of
\* the list the run started with: the extraction of file i+1 starts only when
\* file i has been extracted and matched and its result pushed, and the run's
\* result list holds one ProcessingResult per processed PDF, the i-th for the
\* i-th file; a completed run has one result per PDF of the list
C11_OneAfterAnother ==
  /\ hist.nMatch <= hist.nPdf /\ hist.nPdf <= hist.nMatch + 1
  /\ Len(newResults) = hist.nMatch
  /\ hist.nPdf <= Len(cap.pdfFiles)
  /\ pc \in {"pdf", "pdfocr"} => (idx = hist.nPdf /\ hist.nPdf = hist.nMatch + 1)
  /\ \A i \in 1..Len(newResults) :
       /\ newResults[i].file = cap.pdfFiles[i]
       /\ newResults[i].originalName = cap.pdfFiles[i].name
  /\ hist.outcome = "completed" =>
       /\ hist.nPdf = hist.nMatch
       /\ Len(newResults) = Len(cap.pdfFiles)

\* C11 witness: a run over two different PDFs has ended with their two
\* results in the order of the list
C11_Witness ==
  /\ hist.outcome = "completed"
  /\ Len(cap.pdfFiles) = 2
  /\ cap.pdfFiles[1] /= cap.pdfFiles[2]
  /\ Len(newResults) = 2
  /\ newResults[1].file = cap.pdfFiles[1]
  /\ newResults[2].file = cap.pdfFiles[2]
  /\ hist.nPdf = 2 /\ hist.nMatch = 2

\* the step in which extractTextFromPDF reports a failed read (logic.ts 102)
ReadFailureLogged ==
  \E k \in (Len(logs) + 1)..Len(logs') : logs'[k] = LogEntry("error", "logic.ts:102")

\* a record of the set has a 7-9-digit number of the file name as identifier
NameHoldsIdentifier(table, name) ==
  \E n \in 1..Len(FileNameNumbers(name)) :
    \E k \in 1..Len(table) : table[k].nf = FileNameNumbers(name)[n]

\* C12 as stated: a PDF whose text is the empty string is never matched
C12_AsStated ==
  \A i \in 1..Len(newResults) : hist.texts[i] = <<>> => ~newResults[i].matched

\* C12: when the read of one PDF fails, the run is not aborted: the text of
\* that PDF is the empty string, its result is pushed and the next PDF of the
\* list, if any, is processed, so that a run that entered the loop is either
\* in progress or has completed with one result per PDF; the PDF with the
\* empty text is unmatched unless the variant is not Magalu and a 7-9-digit
\* number of its file name is the identifier of a record, and then it is
\* matched
C12_DegradesToEmptyText ==
  /\ [](/\ \A i \in 1..Len(newResults) :
             hist.texts[i] = <<>> =>
               (newResults[i].matched <=>
                  (/\ cap.marketplace /= "Magalu"
                   /\ NameHoldsIdentifier(hist.parsed, cap.pdfFiles[i].name)))
        /\ hist.nPdf > 0 =>
             \/ /\ hist.outcome = "running" /\ processing
                /\ pc \in {"pdf", "pdfocr"}
             \/ /\ hist.outcome = "completed" /\ ~processing /\ pc = "idle"
                /\ Len(newResults) = Len(cap.pdfFiles))
  /\ [][ReadFailureLogged =>
          /\ Len(newResults') = Len(newResults) + 1
          /\ hist'.texts[Len(newResults')] = <<>>
          /\ IF idx < Len(cap.pdfFiles)
             THEN pc' = "pdf" /\ idx' = idx + 1 /\ processing'
             ELSE hist'.outcome = "completed"]_vars

\* C12 witness: a run over two PDFs has completed although the read of the
\* first one failed: its text is empty and it is unmatched, and the second
\* PDF was read and matched
C12_Witness ==
  /\ hist.outcome = "completed"
  /\ Len(newResults) = 2
  /\ hist.texts[1] = <<>>
  /\ ~newResults[1].matched
  /\ hist.texts[2] /= <<>>
  /\ newResults[2].matched
  /\ \E k \in 1..Len(logs) : logs[k] = LogEntry("error", "logic.ts:102")

\* the name the claim gives a matched file: five fields separated by ' - ',
\* the amount with two decimals after a comma
StatedName(row, mk, un) ==
  Join(<<(IF row.tipo = Null \/ row.tipo = <<>> THEN <<"N", "F", "S">> ELSE row.tipo)
           \o <<" ">> \o row.nf,
         row.descricao,
         <<"R", "$">> \o NatToDigits(row.valor \div 100) \o <<",">>
           \o TwoDigits(row.valor % 100),
         <<mk>>,
         <<un>>>>, <<" ", "-", " ">>) \o <<".", "p", "d", "f">>

\* C13: the result pushed for a PDF has matched = TRUE exactly when the
\* matcher returned a record for it; an unmatched result has the original
\* file name as new name; a matched one has the name '<type or NFS>
\* <identifier> - <description> - R$<amount> - <marketplace> - <unit>.pdf'
\* built from the returned record, with two decimals after a comma
C13_ResultNaming ==
  /\ [](\A i \in 1..Len(newResults) :
          /\ newResults[i].matched \in BOOLEAN
          /\ newResults[i].originalName = cap.pdfFiles[i].name
          /\ ~newResults[i].matched => newResults[i].newName = newResults[i].originalName)
  /\ [][Len(newResults') = Len(newResults) + 1 =>
          LET r == newResults'[Len(newResults')]
              m == findMatchingRow(hist'.texts[Len(newResults')], hist.parsed,
                                   cap.pdfFiles[idx].name, cap.marketplace)
          IN  /\ r.matched <=> m.row /= NullRow
              /\ r.matched => r.newName = StatedName(m.row, cap.marketplace, cap.unidade)]_vars

\* C13 witness: a run has pushed a matched result with a new name and then an
\* unmatched one that keeps its name
C13_Witness ==
  /\ Len(newResults) = 2
  /\ newResults[1].matched
  /\ newResults[1].newName /= newResults[1].originalName
  /\ newResults[1].newName =
       StatedName(findMatchingRow(hist.texts[1], hist.parsed, cap.pdfFiles[1].name,
                                  cap.marketplace).row,
                  cap.marketplace, cap.unidade)
  /\ ~newResults[2].matched
  /\ newResults[2].newName = cap.pdfFiles[2].name

\* the positions of the entries a step adds to the log that have severity
\* 'error' and come from one of the given places
ErrorsLoggedAt(places) ==
  {k \in (Len(logs) + 1)..Len(logs') :
     logs'[k].type = "error" /\ logs'[k].at \in places}

\* C16: the step in which a run aborts or a PDF text degrades to the empty
\* string adds error entries to the log and removes none: a failed table OCR
\* is logged by extractTextFromImage before it is thrown and again by
\* processDocuments before the run ends; an empty record set is logged by
\* parseTableText and then by processDocuments; a failed read of a PDF is
\* logged by extractTextFromPDF before the empty text is matched
C16_ErrorsLogged ==
  [][/\ (hist.outcome = "running" /\ hist'.outcome = "ocrFailed") =>
          /\ SubSeq(logs', 1, Len(logs)) = logs
          /\ \E j \in ErrorsLoggedAt({"logic.ts:35"}) :
               \E k \in ErrorsLoggedAt({"App.tsx:189"}) : j < k /\ k = Len(logs')
     /\ (hist.outcome = "running" /\ hist'.outcome = "emptyTable") =>
          /\ SubSeq(logs', 1, Len(logs)) = logs
          /\ \E j \in ErrorsLoggedAt({"logic.ts:parse-empty", "logic.ts:357"}) :
               \E k \in ErrorsLoggedAt({"App.tsx:189"}) : j < k /\ k = Len(logs')
     /\ (/\ Len(hist'.texts) = Len(hist.texts) + 1
         /\ hist'.texts[Len(hist'.texts)] = <<>>) =>
          /\ SubSeq(logs', 1, Len(logs)) = logs
          /\ \E j \in ErrorsLoggedAt({"logic.ts:102", "logic.ts:95"}) :
               \A k \in (Len(logs) + 1)..Len(logs') :
                 logs'[k].at \in {"logic.ts:430", "logic.ts:363", "App.tsx:174",
                                  "App.tsx:183"} => j < k]_vars

\* C16 witness: a PDF whose read failed has been matched by its file name, so
\* that the only error entry of its step is the one of extractTextFromPDF,
\* and it is in the log
C16_Witness ==
  /\ Len(newResults) >= 1
  /\ hist.texts[Len(newResults)] = <<>>
  /\ newResults[Len(newResults)].matched
  /\ \E k \in 1..Len(logs) :
       /\ logs[k] = LogEntry("error", "logic.ts:102")
       /\ \A j \in k..Len(logs) : j /= k => logs[j].type /= "error"

\* C18: nothing is retried within a run: the table OCR is called once, the
\* parser once when the OCR answered and not at all when it failed; the k-th
\* extractTextFromPDF call and the k-th findMatchingRow call of the run are
\* for file k of the list, so that a completed run has made one of each per
\* PDF, failed reads included; the OCR of a PDF is awaited at most once, from
\* the extraction of that PDF, and its answer or failure ends the extraction
C18_NoRetries ==
  /\ [](hist.outcome /= "none" =>
          /\ hist.nOcr = 1
          /\ hist.nParse \in {0, 1}
          /\ hist.nParse = 0 <=> (pc = "ocr" \/ hist.outcome = "ocrFailed")
          /\ hist.nMatch <= hist.nPdf /\ hist.nPdf <= Len(cap.pdfFiles)
          /\ hist.outcome = "completed" =>
               (hist.nPdf = Len(cap.pdfFiles) /\ hist.nMatch = Len(cap.pdfFiles)))
  /\ [][/\ hist'.nPdf /= hist.nPdf =>
             \/ hist'.nPdf = 0 /\ pc = "idle" /\ pc' = "ocr"
             \/ hist'.nPdf = hist.nPdf + 1 /\ idx' = hist'.nPdf /\ hist'.nMatch = hist.nPdf
        /\ hist'.nMatch /= hist.nMatch =>
             \/ hist'.nMatch = 0 /\ pc = "idle" /\ pc' = "ocr"
             \/ hist'.nMatch = hist.nMatch + 1 /\ idx = hist'.nMatch
        /\ (pc /= "pdfocr" /\ pc' = "pdfocr") =>
             (pc = "pdf" /\ idx' = idx /\ hist' = hist)
        /\ (pc = "pdfocr" /\ pc' /= "pdfocr") => hist'.nMatch = idx
        /\ (pc = "pdfocr" /\ pc' = "pdfocr") =>
             UNCHANGED <<idx, fullText, newResults, tableData, cap, runs,
                         hist.nOcr, hist.nParse, hist.nPdf, hist.nMatch>>]_vars

\* C18 witness: a Magalu run over two PDFs has completed with one table OCR,
\* one parse, two extractions and two matcher calls, the read of the first
\* PDF having failed and the second having gone through the OCR of the PDF
C18_Witness ==
  /\ hist.outcome = "completed"
  /\ cap.marketplace = "Magalu"
  /\ hist.nOcr = 1 /\ hist.nParse = 1
  /\ hist.nPdf = 2 /\ hist.nMatch = 2
  /\ Len(newResults) = 2
  /\ hist.texts[1] = <<>>
  /\ \E k \in 1..Len(logs) : logs[k] = LogEntry("info", "logic.ts:86")

\* C21: at most one processDocuments call is in progress: the flag is TRUE
\* exactly while a call is between its start and its end, and a call starts
\* only in a state where the flag is FALSE and no call is in progress, also
\* when the table and the PDFs for another run are there
C21_OneRunAtATime ==
  /\ [](processing <=> pc /= "idle")
  /\ [](processing <=> hist.outcome = "running")
  /\ [][runs' /= runs =>
          /\ runs' = runs + 1
          /\ ~processing /\ pc = "idle" /\ hist.outcome /= "running"
          /\ processing' /\ pc' = "ocr"]_vars

\* C21 witness: a run is in progress past its first PDF while the page holds
\* a table and PDFs and another run would be allowed by the bound
C21_Witness ==
  /\ processing
  /\ pc = "pdf" /\ idx = 2
  /\ tableFile /\ Len(pdfFiles) /= 0
  /\ runs < MaxRuns

\* C23: a run works on the PDF list, marketplace and unit it was started with:
\* they are fixed at the start step and stay fixed whatever the handlers of the
\* page do to the list and the selections during the run; the table is parsed
\* and every PDF is matched and named under that marketplace and unit, and
\* the list published at the end has one entry per PDF of the starting list,
\* in its order
C23_RunUsesCapture ==
  /\ [][runs' /= runs =>
          cap' = [marketplace |-> marketplace, unidade |-> unidade,
                  pdfFiles |-> pdfFiles]]_vars
  /\ [][runs' = runs => cap' = cap]_vars
  /\ [][hist'.nParse = hist.nParse + 1 =>
          \E t \in TableTexts : hist'.parsed = parseTableText(t, cap.marketplace)]_vars
  /\ [][Len(newResults') = Len(newResults) + 1 =>
          /\ hist'.nMatch = Len(newResults')
          /\ newResults'[hist'.nMatch] =
               ResultOf(cap.pdfFiles[hist'.nMatch],
                        findMatchingRow(hist'.texts[hist'.nMatch], hist.parsed,
                                        cap.pdfFiles[hist'.nMatch].name,
                                        cap.marketplace),
                        cap.marketplace, cap.unidade)]_vars
  /\ [][(hist.outcome = "running" /\ hist'.outcome = "completed") =>
          /\ results' = newResults'
          /\ Len(results') = Len(cap.pdfFiles)
          /\ \A i \in 1..Len(results') : results'[i].file = cap.pdfFiles[i]]_vars

\* C23 witness: the marketplace was changed on the page during a run over two
\* PDFs, and the run has pushed a matched result for the first one
C23_Witness ==
  /\ processing /\ pc = "pdf" /\ idx = 2
  /\ hist.edits = 1
  /\ marketplace /= cap.marketplace
  /\ pdfFiles = cap.pdfFiles /\ unidade = cap.unidade
  /\ Len(cap.pdfFiles) = 2
  /\ Len(newResults) = 1
  /\ newResults[1].matched
  /\ newResults[1].newName = NewName(hist.parsed[1], cap.marketplace, cap.unidade)

\* C24: the visible result list is empty or is the complete result list of
\* the most recent run, which then has processed all its PDFs: it is empty
\* while a run is in progress and after a run that ended on a failed table
\* OCR or an empty record set; the start of a run empties it; the only step
\* that puts entries in it is the one that ends a run after its last PDF, and
\* it puts there the whole list of that run, one entry per PDF
C24_VisibleResults ==
  /\ [](\/ results = <<>>
        \/ /\ hist.outcome = "completed"
           /\ results = newResults
           /\ Len(results) = Len(cap.pdfFiles)
           /\ \A i \in 1..Len(results) : results[i].file = cap.pdfFiles[i])
  /\ []((processing \/ hist.outcome \in {"ocrFailed", "emptyTable"}) => results = <<>>)
  /\ [][runs' /= runs => results' = <<>>]_vars
  /\ [][results' /= results =>
          \/ results' = <<>>
          \/ /\ results = <<>>
             /\ hist.outcome = "running" /\ hist'.outcome = "completed"
             /\ idx = Len(cap.pdfFiles)
             /\ hist'.nMatch = Len(cap.pdfFiles)
             /\ results' = newResults']_vars

\* C24 witness: the second run of the page, over two PDFs, has ended and its
\* two results, one matched and one not, are the visible list
C24_Witness ==
  /\ runs = 2
  /\ hist.outcome = "completed"
  /\ ~processing
  /\ Len(cap.pdfFiles) = 2
  /\ results = newResults
  /\ Len(results) = 2
  /\ results[1].matched /\ ~results[2].matched

\* the table OCR awaited by a run answers or fails
TableOcrReturns ==
  \/ OcrFail
  \/ \E text \in TableTexts : OcrDone(text)

\* the read of a PDF, or the OCR of a PDF, awaited by a run answers or fails
PdfAwaitReturns ==
  \/ PdfReadFail
  \/ PdfRead
  \/ PdfReadShort
  \/ \E ocrOk \in BOOLEAN : PdfOcrDone(ocrOk)

\* WF_vars(PdfAwaitReturns) written out: a step of PdfAwaitReturns is possible
\* exactly when pc is "pdf" or "pdfocr" (PdfReadFail and PdfOcrDone(FALSE)
\* have no other guard, and each pushes a result), so the condition is that
\* the run is infinitely often not at such an await or takes infinitely many
\* such steps
PdfAwaitFair ==
  \/ []<>(pc \notin {"pdf", "pdfocr"})
  \/ []<><<PdfAwaitReturns>>_vars

\* the runs followed to their end
MaxLiveRuns == 1

\* a step of the page that does not start a run beyond the last one followed
NextLive ==
  \/ UserStep
  \/ runs < MaxLiveRuns /\ processDocuments
  \/ TableOcrReturns
  \/ PdfAwaitReturns

\* the page with every awaited call of a run eventually answering or failing:
\* the promises awaited in App.tsx 139 and 160 settle, and the continuation
\* of processDocuments then runs
SpecLive == Init /\ [][NextLive]_vars /\ WF_vars(TableOcrReturns) /\ PdfAwaitFair

\* C22: when every awaited call eventually returns or fails, a run that has
\* started eventually ends with the flag FALSE, on a failed table OCR, on an
\* empty record set or after its last PDF
C22_RunEnds ==
  processing ~> (/\ ~processing
                 /\ pc = "idle"
                 /\ hist.outcome \in {"ocrFailed", "emptyTable", "completed"})

\* C22 witness: a run of two PDFs has ended after its last PDF, the flag being
\* FALSE
C22_Witness ==
  /\ ~processing
  /\ pc = "idle"
  /\ runs = 1
  /\ hist.outcome = "completed"
  /\ Len(cap.pdfFiles) = 2
  /\ Len(results) = 2

\* JSZip.file(name, data) (App.tsx 205): the archive keeps one entry per name,
\* and adding under a name the archive already has replaces that entry
ZipFile(zip, name, data) ==
  [n \in DOMAIN zip \cup {name} |-> IF n = name THEN data ELSE zip[n]]

\* new window.JSZip() (App.tsx 200): the archive without entries
EmptyZip == [n \in {} |-> NullRow]

\* App.tsx 203-206: the loop over the matched results, in their order
RECURSIVE ZipLoop(_, _, _)
ZipLoop(zip, matched, i) ==
  IF i > Len(matched) THEN zip
  ELSE ZipLoop(ZipFile(zip, matched[i].newName, matched[i].file), matched, i + 1)

\* the archives followed
MaxZips == 1

\* the archives built so far
ZipCount == IF fn.op = "zip" THEN fn.n ELSE 0

\* App.tsx 196-217: the matched results of the visible list are put in a new
\* archive under their new names and the archive is handed to the browser;
\* the awaits of the loop work on the locals of the call
downloadZip ==
  /\ \E i \in 1..Len(results) : results[i].matched
  /\ ZipCount < MaxZips
  /\ LET matched == SelectSeq(results, LAMBDA r : r.matched) IN
       fn' = [op |-> "zip", n |-> ZipCount + 1, results |-> results,
              files |-> ZipLoop(EmptyZip, matched, 1)]
  /\ logs' = logs \o <<LogEntry("info", "App.tsx:199"), LogEntry("success", "App.tsx:216")>>
  /\ UNCHANGED <<marketplace, unidade, tableFile, pdfFiles, processing, results,
                 pc, cap, tableData, newResults, idx, fullText, hist, runs>>

\* the page with the packaging step, over the runs followed to their end
NextZip ==
  \/ UserStep
  \/ runs < MaxLiveRuns /\ processDocuments
  \/ TableOcrReturns
  \/ PdfAwaitReturns
  \/ downloadZip

SpecZip == Init /\ [][NextZip]_vars

\* the archive downloadZip built holds the file of r under the new name of r
InArchive(r) ==
  /\ r.newName \in DOMAIN fn.files
  /\ fn.files[r.newName] = r.file

\* C25, as stated: the archive downloadZip builds has one entry per matched
\* result of the visible list, every matched result's file is in it under its
\* new name, also when several PDFs matched the same record, and no
\* unmatched result is in it
C25_AsStated ==
  fn.op = "zip" =>
    /\ \A i \in 1..Len(fn.results) : fn.results[i].matched => InArchive(fn.results[i])
    /\ Cardinality(DOMAIN fn.files) =
         Cardinality({i \in 1..Len(fn.results) : fn.results[i].matched})
    /\ \A n \in DOMAIN fn.files :
         \E i \in 1..Len(fn.results) :
           /\ fn.results[i].matched
           /\ fn.results[i].newName = n

\* the archive built from a list in which two different PDFs matched the
\* same record: it has one entry, the second PDF's, and the first PDF is lost
C25_MatchedPdfLost ==
  /\ fn.op = "zip"
  /\ Len(fn.results) = 2
  /\ fn.results[1].matched /\ fn.results[2].matched
  /\ fn.results[1].file /= fn.results[2].file
  /\ fn.results[1].newName = fn.results[2].newName
  /\ Cardinality(DOMAIN fn.files) = 1
  /\ ~InArchive(fn.results[1])
  /\ InArchive(fn.results[2])

(***************************************************************************)
(* Direct calls of parseTableText: the table text is put together line by   *)
(* line and parsed under a variant.                                         *)
(***************************************************************************)
MaxLines == 4

\* the lines a table text is made of: two numbers (7-9 digits, zero padded),
\* two amounts, a description and a header
LinePool ==
  {<<"0", "0", "1", "2", "3", "4", "5", "6", "7">>,
   <<"0", "0", "7", "6", "5", "4", "3", "2", "1">>,
   <<"R", "$", " ", "1", "5", "0", ",", "0", "0">>,
   <<" ", "2", "0", ",", "0", "0", " ">>,
   <<"S", "e", "r", "v", "i", "ç", "o", " ", "-", " ", "d", "e", " ", "L", "i", "m", "p", "e", "z", "a">>,
   <<"V", "a", "l", "o", "r", " ", "t", "o", "t", "a", "l">>}

\* the variants parseTableText is called with; the last one is none it knows
ParseVariants == Marketplaces \cup {"Outro"}

TextOfLines(lines) == Join(lines, <<"\n">>)

InitParse == AppInit /\ fn = [op |-> "lines", lines |-> <<>>]

AddLine(l) ==
  /\ fn.op = "lines"
  /\ Len(fn.lines) < MaxLines
  /\ fn' = [fn EXCEPT !.lines = Append(@, l)]
  /\ UNCHANGED <<appVars, runVars, hist>>

CallParse(m) ==
  /\ fn.op = "lines"
  /\ fn' = [op |-> "parsed", lines |-> fn.lines, marketplace |-> m,
            out |-> parseTableText(TextOfLines(fn.lines), m)]
  /\ UNCHANGED <<appVars, runVars, hist>>

NextParse ==
  \/ \E l \in LinePool : AddLine(l)
  \/ \E m \in ParseVariants : CallParse(m)

SpecParse == InitParse /\ [][NextParse]_vars

\* the identifiers a table text holds, in order of appearance: the lines that
\* are a 7-9-digit number (Shopee), or a zero-padded number with the zeros
\* taken off (Mercado Livre)
IdentifiersIn(lines, m) ==
  LET ls == [k \in 1..Len(lines) |-> Trim(lines[k])] IN
  IF m = "Shopee" THEN SelectSeq(ls, LAMBDA l : FullMatch(ReNum79, l))
  ELSE IF m = "Mercado Livre"
       THEN LET z == SelectSeq(ls, LAMBDA l : FullMatch(ReZeroPadded, l)) IN
            [k \in 1..Len(z) |-> StripLeadingZeros(z[k])]
       ELSE <<>>

\* the amounts a table text holds, in order of appearance, as written: the
\* lines that are an amount (Shopee, Mercado Livre), or that hold an amount
\* above zero and do not start as a header (Magalu)
AmountsIn(lines, m) ==
  LET ls == [k \in 1..Len(lines) |-> Trim(lines[k])] IN
  IF m \in {"Shopee", "Mercado Livre"}
  THEN LET a == SelectSeq(ls, LAMBDA l : FullMatch(ReValor, l)) IN
       [k \in 1..Len(a) |-> ValorMatch(a[k])]
  ELSE IF m = "Magalu"
       THEN LET a == SelectSeq(ls, LAMBDA l : /\ Ends(ReMagaluHeader, l, 1) = {}
                                              /\ Search(ReValorI, l)
                                              /\ ParseValor(ValorSearch(l)) > 0) IN
            [k \in 1..Len(a) |-> ValorSearch(a[k])]
       ELSE <<>>

\* the descriptions the parser of a variant collects from a table text
DescriptionsIn(lines, m) ==
  IF m = "Shopee" THEN ShopeeLists(TextOfLines(lines)).descricoes
  ELSE IF m = "Mercado Livre" THEN MLLists(TextOfLines(lines)).descricoes
  ELSE <<>>

\* C6: the Shopee and Mercado Livre parsers, when the table text holds at
\* least one identifier and one amount, return min(#identifiers, #amounts)
\* records; record i carries the i-th identifier and the i-th amount of the
\* text, and the i-th description or 'Servico' (with cedilla) when there are
\* fewer than i descriptions
C6_PositionalPairing ==
  (fn.op = "parsed" /\ fn.marketplace \in {"Shopee", "Mercado Livre"}) =>
    LET ids   == IdentifiersIn(fn.lines, fn.marketplace)
        amts  == AmountsIn(fn.lines, fn.marketplace)
        descs == DescriptionsIn(fn.lines, fn.marketplace)
        n     == Min2(Len(ids), Len(amts))
    IN  (Len(ids) > 0 /\ Len(amts) > 0) =>
          /\ Len(fn.out) = n
          /\ \A i \in 1..n :
               /\ fn.out[i].nf = ids[i]
               /\ fn.out[i].valorFormatado = amts[i]
               /\ fn.out[i].valor = ParseValor(amts[i])
               /\ fn.out[i].descricao = (IF i <= Len(descs) THEN descs[i] ELSE Servico)

\* C6 witness: a Shopee text with two different identifiers and two different
\* amounts is parsed to two records, the second with the placeholder
\* description
C6_Witness ==
  /\ fn.op = "parsed"
  /\ fn.marketplace = "Shopee"
  /\ Len(fn.out) = 2
  /\ fn.out[1].nf /= fn.out[2].nf
  /\ fn.out[1].valor /= fn.out[2].valor
  /\ fn.out[2].descricao = Servico

\* C7: parseTableText always returns a record sequence, and an empty one when
\* the table text holds no amount (all three variants) or no identifier
\* (Shopee and Mercado Livre), whatever else it holds
C7_EmptyWithoutAmountsOrIdentifiers ==
  fn.op = "parsed" =>
    /\ DOMAIN fn.out = 1..Len(fn.out)
    /\ (fn.marketplace \in Marketplaces /\ Len(AmountsIn(fn.lines, fn.marketplace)) = 0)
         => fn.out = <<>>
    /\ (/\ fn.marketplace \in {"Shopee", "Mercado Livre"}
        /\ Len(IdentifiersIn(fn.lines, fn.marketplace)) = 0)
         => fn.out = <<>>

\* C7 witness: a Mercado Livre text with amounts and a description and no
\* identifier, parsed to no record
C7_Witness ==
  /\ fn.op = "parsed"
  /\ fn.marketplace = "Mercado Livre"
  /\ Len(AmountsIn(fn.lines, fn.marketplace)) = 2
  /\ Len(DescriptionsIn(fn.lines, fn.marketplace)) = 1
  /\ Len(IdentifiersIn(fn.lines, fn.marketplace)) = 0
  /\ fn.out = <<>>

(***************************************************************************)
(* Direct calls of findMatchingRow: a record set is parsed from a table     *)
(* text under its variant, a PDF text is put together from fragments, and   *)
(* the matcher is called with a file name.                                  *)
(***************************************************************************)
MaxFrags == 3

\* the four-line Shopee table text
RoundTripTableText ==
  <<"N", "ú", "m", "e", "r", "o", "\n", "1", "2", "3", "4", "5", "6", "7", "\n", "R", "$", " ", "1", "5", "0", ",", "0", "0", "\n", "S", "e", "r", "v", "i", "ç", "o", " ", "-", " ", "d", "e", " ", "L", "i", "m", "p", "e", "z", "a">>

\* the table texts the record sets come from, each with its variant
MatchTables ==
  <<[marketplace |-> "Shopee",
     text |-> RoundTripTableText],
    [marketplace |-> "Shopee",
     text |-> <<"1", "2", "3", "4", "5", "6", "7", "\n", "7", "6", "5", "4", "3", "2", "1", "\n", "R", "$", " ", "1", "5", "0", ",", "0", "0", "\n", "2", "0", ",", "0", "0">>],
    [marketplace |-> "Shopee",
     text |-> <<"1", "2", "3", "4", "5", "6", "7", "\n", "7", "6", "5", "4", "3", "2", "1", "\n", "R", "$", " ", "1", "5", "0", ",", "0", "0", "\n", "1", "5", "0", ",", "0", "0">>],
    [marketplace |-> "Shopee",
     text |-> <<"1", "2", "3", "4", "5", "6", "7", "\n", "1", "2", "3", "4", "5", "6", "7", "\n", "2", "0", ",", "0", "0", "\n", "R", "$", " ", "1", "5", "0", ",", "0", "0">>],
    [marketplace |-> "Mercado Livre",
     text |-> <<"0", "0", "\n", "0", "0", "0", "1", "2", "3", "4", "5", "6", "7", "\n", "R", "$", " ", "1", "5", "0", ",", "0", "0", "\n", "2", "0", ",", "0", "0", "\n", "T", "a", "r", "i", "f", "a", " ", "d", "e", " ", "v", "e", "n", "d", "a">>],
    [marketplace |-> "Shopee",
     text |-> <<"1", "2", "3", "4", "5", "6", "7", "8", "9", "\n", "R", "$", " ", "1", ".", "2", "3", "4", ",", "5", "0">>],
    [marketplace |-> "Magalu",
     text |-> <<"V", "a", "l", "o", "r", "\n", "R", "$", " ", "1", "5", "0", ",", "0", "5", "\n", "T", "a", "r", "i", "f", "a", " ", "d", "e", " ", "i", "n", "t", "e", "r", "m", "e", "d", "i", "a", "ç", "ã", "o", "\n", "2", "0", ",", "0", "0">>],
    [marketplace |-> "Magalu",
     text |-> <<"R", "$", " ", "1", "5", "0", ",", "0", "0">>]>>

\* the fragments of a PDF text, for the cascade and for the Magalu matcher
CascadeFrags ==
  {<<"N", "F", " ", "1", "2", "3", "4", "5", "6", "7">>,
   <<"7", "6", "5", "4", "3", "2", "1">>,
   <<"R", "$", " ", "1", "5", "0", ",", "0", "0">>,
   <<"2", "0", ",", "0", "0">>,
   <<"1", "5", "0">>,
   <<"1", "2", "3", "4", ",", "5">>}

MagaluFrags ==
  {<<"N", "ú", "m", "e", "r", "o", " ", "d", "a", " ", "N", "o", "t", "a", ":", " ", "9", "8", "7", "6">>,
   <<"N", "o", "t", "a", " ", "d", "e", " ", "d", "é", "b", "i", "t", "o">>,
   <<"R", "$", " ", "1", "5", "0", ",", "0", "5">>,
   <<"1", "5", "0", ",", "5">>,
   <<"r", "$", "2", "0", ".", "0", "0">>,
   <<"N", "o", "t", "a", " ", "1", "2">>}

FragPool(m) == IF m = "Magalu" THEN MagaluFrags ELSE CascadeFrags

FileNames ==
  {<<"n", "o", "t", "a", ".", "p", "d", "f">>,
   <<"N", "F", "_", "1", "2", "3", "4", "5", "6", "7", ".", "p", "d", "f">>,
   <<"7", "6", "5", "4", "3", "2", "1", "_", "1", "2", "3", "4", "5", "6", "7", ".", "p", "d", "f">>,
   <<"1", "2", "3", "4", "5", "6", "7", "8", "9", "0", ".", "p", "d", "f">>}

PdfTextOf(frags) == Join(frags, <<" ", "\n">>)

InitMatch == AppInit /\ fn = [op |-> "start"]

LoadTable(k) ==
  /\ fn.op = "start"
  /\ fn' = [op |-> "frags", src |-> k, marketplace |-> MatchTables[k].marketplace,
            table |-> parseTableText(MatchTables[k].text, MatchTables[k].marketplace),
            frags |-> <<>>]
  /\ UNCHANGED <<appVars, runVars, hist>>

AddFrag(f) ==
  /\ fn.op = "frags"
  /\ f \in FragPool(fn.marketplace)
  /\ Len(fn.frags) < MaxFrags
  /\ fn' = [fn EXCEPT !.frags = Append(@, f)]
  /\ UNCHANGED <<appVars, runVars, hist>>

CallMatch(name) ==
  /\ fn.op = "frags"
  /\ fn' = [op |-> "matched", src |-> fn.src, marketplace |-> fn.marketplace,
            table |-> fn.table, text |-> PdfTextOf(fn.frags), name |-> name,
            out |-> findMatchingRow(PdfTextOf(fn.frags), fn.table, name, fn.marketplace)]
  /\ UNCHANGED <<appVars, runVars, hist>>

NextMatch ==
  \/ \E k \in 1..Len(MatchTables) : LoadTable(k)
  \/ \E f \in CascadeFrags \cup MagaluFrags : AddFrag(f)
  \/ \E name \in FileNames : CallMatch(name)

SpecMatch == InitMatch /\ [][NextMatch]_vars

\* a call of the cascade (the variants other than Magalu) has returned
CascadeCall == fn.op = "matched" /\ fn.marketplace /= "Magalu"

\* the record has an identifier and it occurs in the text
IdInText(row, text) == row.nf /= Null /\ row.nf /= <<>> /\ Includes(text, row.nf)

\* one of the amount renderings of the record occurs in the text
AmountInText(row, text) ==
  \E k \in 1..Len(ValorFormats(row)) : Includes(text, ValorFormats(row)[k])

\* the positions, among the 7-9-digit numbers the file name holds, of those
\* that are the identifier of a record
FileNameHits(table, name) ==
  {n \in 1..Len(FileNameNumbers(name)) :
     \E k \in 1..Len(table) : table[k].nf = FileNameNumbers(name)[n]}

NormalizedText(text) == ToUpperCase(CollapseSpaces(text))

\* C2: in the cascade the file name comes first: when a 7-9-digit number of
\* the file name is the identifier of a record, the first record with the
\* first such number is returned, whatever the PDF text holds
C2_FileNameFirst ==
  CascadeCall =>
    LET nums == FileNameNumbers(fn.name)
        hits == FileNameHits(fn.table, fn.name)
    IN  hits /= {} =>
          /\ fn.out.via = "fileName"
          /\ fn.out.row.nf = nums[SetMin(hits)]
          /\ fn.out.row = fn.table[SetMin({k \in 1..Len(fn.table) :
                                             fn.table[k].nf = nums[SetMin(hits)]})]

\* C2 witness: the file name holds two numbers, the first is the identifier of
\* the record returned, and the text holds the identifier and an amount
\* rendering of another record and not the identifier of the one returned
C2_Witness ==
  /\ CascadeCall
  /\ Len(FileNameNumbers(fn.name)) = 2
  /\ FileNameHits(fn.table, fn.name) = {1, 2}
  /\ fn.out.row.nf = FileNameNumbers(fn.name)[1]
  /\ ~IdInText(fn.out.row, NormalizedText(fn.text))
  /\ \E k \in 1..Len(fn.table) :
       /\ fn.table[k] /= fn.out.row
       /\ IdInText(fn.table[k], NormalizedText(fn.text))
       /\ AmountInText(fn.table[k], NormalizedText(fn.text))

\* C3: when no number of the file name is an identifier and some record has
\* both its identifier and an amount rendering in the normalized text, the
\* first such record is returned
C3_IdentifierAndAmountSecond ==
  CascadeCall =>
    LET norm == NormalizedText(fn.text)
        both == {k \in 1..Len(fn.table) :
                   IdInText(fn.table[k], norm) /\ AmountInText(fn.table[k], norm)}
    IN  (FileNameHits(fn.table, fn.name) = {} /\ both /= {}) =>
          fn.out = [row |-> fn.table[SetMin(both)], via |-> "nfValor"]

\* C3 witness: the second record is returned for its identifier and amount
\* while the first record has its amount or its identifier in the text
C3_Witness ==
  /\ CascadeCall
  /\ FileNameHits(fn.table, fn.name) = {}
  /\ Len(fn.table) = 2
  /\ fn.out = [row |-> fn.table[2], via |-> "nfValor"]
  /\ fn.table[1] /= fn.table[2]
  /\ \/ AmountInText(fn.table[1], NormalizedText(fn.text))
     \/ IdInText(fn.table[1], NormalizedText(fn.text))

\* C4: when an amount rendering of some record is a substring of the PDF
\* text the cascade returns a record; when moreover no identifier is in the
\* text and no number of the file name is an identifier, it returns the first
\* record with an amount rendering in the text
C4_AmountNeverNull ==
  CascadeCall =>
    LET amts == {k \in 1..Len(fn.table) : AmountInText(fn.table[k], fn.text)}
        ids  == {k \in 1..Len(fn.table) : IdInText(fn.table[k], fn.text)}
    IN  amts /= {} =>
          /\ fn.out.row /= NullRow
          /\ (ids = {} /\ FileNameHits(fn.table, fn.name) = {}) =>
               fn.out = [row |-> fn.table[SetMin(amts)], via |-> "valor"]

\* C4 witness: two records have an amount rendering in a text that holds no
\* identifier, and the first is returned by the amount-only strategy
C4_Witness ==
  /\ CascadeCall
  /\ FileNameHits(fn.table, fn.name) = {}
  /\ Len(fn.table) = 2
  /\ \A k \in 1..2 : AmountInText(fn.table[k], fn.text) /\ ~IdInText(fn.table[k], fn.text)
  /\ fn.table[1] /= fn.table[2]
  /\ fn.out = [row |-> fn.table[1], via |-> "valor"]

\* C5 as stated: a record whose identifier is in the text and whose amount is
\* not is returned only when no record has an amount rendering in the text;
\* and null is returned exactly when no number of the file name is an
\* identifier, no amount rendering and no identifier is in the text
C5_AsStated ==
  CascadeCall =>
    LET norm == NormalizedText(fn.text)
        amts == {k \in 1..Len(fn.table) : AmountInText(fn.table[k], norm)}
        ids  == {k \in 1..Len(fn.table) : IdInText(fn.table[k], norm)}
    IN  /\ (IdInText(fn.out.row, norm) /\ ~AmountInText(fn.out.row, norm)) => amts = {}
        /\ (fn.out.row = NullRow) <=>
             (FileNameHits(fn.table, fn.name) = {} /\ amts = {} /\ ids = {})

\* C5, amended: when no number of the file name is an identifier, a record
\* whose identifier is in the text and whose amount is not is returned only
\* when no record has an amount rendering in the text; and null is returned
\* exactly when no number of the file name is an identifier, no amount
\* rendering and no identifier is in the text
C5_IdentifierOnlyLast ==
  CascadeCall =>
    LET norm == NormalizedText(fn.text)
        amts == {k \in 1..Len(fn.table) : AmountInText(fn.table[k], norm)}
        ids  == {k \in 1..Len(fn.table) : IdInText(fn.table[k], norm)}
    IN  /\ (/\ FileNameHits(fn.table, fn.name) = {}
            /\ IdInText(fn.out.row, norm)
            /\ ~AmountInText(fn.out.row, norm)) => (amts = {} /\ fn.out.via = "nf")
        /\ (fn.out.row = NullRow) <=>
             (FileNameHits(fn.table, fn.name) = {} /\ amts = {} /\ ids = {})

\* C5 witness: the second record is returned by the identifier-only strategy,
\* no amount rendering of any record being in the text
C5_Witness ==
  /\ CascadeCall
  /\ fn.out.via = "nf"
  /\ Len(fn.table) = 2
  /\ fn.out.row = fn.table[2]
  /\ fn.table[1] /= fn.table[2]
  /\ IdInText(fn.out.row, NormalizedText(fn.text))
  /\ \A k \in 1..2 : ~AmountInText(fn.table[k], NormalizedText(fn.text))

\* C8: the four-line Shopee table text parses to the one record with
\* identifier 1234567, amount 150.00 shown as 150,00 and description
\* 'Servico - de Limpeza' (with cedilla); matched against a PDF text that
\* holds 1234567 and 150,00, with a file name that holds no identifier, the
\* record is returned by the identifier-and-amount strategy
C8_RoundTrip ==
  (fn.op \in {"frags", "matched"} /\ fn.src = 1) =>
    /\ MatchTables[1] = [marketplace |-> "Shopee", text |-> RoundTripTableText]
    /\ fn.table = <<[nf |-> <<"1", "2", "3", "4", "5", "6", "7">>,
                     valor |-> 15000,
                     valorFormatado |-> <<"1", "5", "0", ",", "0", "0">>,
                     descricao |-> <<"S", "e", "r", "v", "i", "ç", "o", " ", "-", " ", "d", "e", " ", "L", "i", "m", "p", "e", "z", "a">>,
                     tipo |-> Null]>>
    /\ (/\ fn.op = "matched"
        /\ Includes(fn.text, <<"1", "2", "3", "4", "5", "6", "7">>)
        /\ Includes(fn.text, <<"1", "5", "0", ",", "0", "0">>)
        /\ FileNameHits(fn.table, fn.name) = {}) =>
          fn.out = [row |-> fn.table[1], via |-> "nfValor"]

\* C8 witness: such a call, with a file name that holds a number
C8_Witness ==
  /\ fn.op = "matched"
  /\ fn.src = 1
  /\ Includes(fn.text, <<"1", "2", "3", "4", "5", "6", "7">>)
  /\ Includes(fn.text, <<"1", "5", "0", ",", "0", "0">>)
  /\ FileNameNumbers(fn.name) /= <<>>
  /\ FileNameHits(fn.table, fn.name) = {}
  /\ fn.out.via = "nfValor"

\* the text holds the debit-note phrase
HasDebitNotePhrase(text) ==
  \/ Includes(ToUpperCase(text), <<"N", "O", "T", "A", " ", "D", "E", " ", "D", "É", "B", "I", "T", "O">>)
  \/ Includes(ToUpperCase(text), <<"N", "O", "T", "A", " ", "D", "E", " ", "D", "E", "B", "I", "T", "O">>)

\* an amount candidate of the record occurs in the PDF text, blanks removed
\* and letters in upper case on both sides
CandidateInText(row, text) ==
  \E k \in 1..Len(MagaluValorFormats(row)) :
    Includes(ToUpperCase(StripSpaces(text)), ToUpperCase(StripSpaces(MagaluValorFormats(row)[k])))

\* C9: under Magalu the first record with an amount candidate in the PDF text
\* is returned, whatever the file name, with the number extractNFInfoFromPDF
\* finds, or XXXX when it finds none, as identifier, and ND or NFS as type
\* according to the debit-note phrase; null when no record has a candidate in
\* the text
C9_MagaluMatch ==
  (fn.op = "matched" /\ fn.marketplace = "Magalu") =>
    LET found == {k \in 1..Len(fn.table) : CandidateInText(fn.table[k], fn.text)}
        nf    == extractNFInfoFromPDF(fn.text).nf
    IN  IF found = {} THEN fn.out.row = NullRow
        ELSE fn.out.row =
               [fn.table[SetMin(found)] EXCEPT
                  !.nf = IF nf = Null THEN XXXX ELSE nf,
                  !.tipo = IF HasDebitNotePhrase(fn.text) THEN <<"N", "D">> ELSE <<"N", "F", "S">>]

\* C9 witness: the second record is the first with a candidate in a text
\* without identifier pattern and without the debit-note phrase
C9_Witness ==
  /\ fn.op = "matched"
  /\ fn.marketplace = "Magalu"
  /\ Len(fn.table) = 2
  /\ ~CandidateInText(fn.table[1], fn.text)
  /\ fn.out.row.valor = fn.table[2].valor
  /\ fn.out.row.nf = XXXX
  /\ fn.out.row.tipo = <<"N", "F", "S">>
  /\ FileNameNumbers(fn.name) /= <<>>

(***************************************************************************)
(* Direct calls of extractNFInfoFromPDF: the PDF text is put together from  *)
(* fragments and the extractor is called on it.                             *)
(***************************************************************************)
\* the fragments of a PDF text: one for each label of the pattern list, two
\* for the generic pattern, and the debit-note phrase followed by two digits
ExtractFrags ==
  {<<"N", "ú", "m", "e", "r", "o", " ", "d", "a", " ", "N", "o", "t", "a", ":", " ", "9", "8", "7", "6">>,
   <<"N", "ú", "m", "e", "r", "o", " ", "N", "o", "t", "a", " ", "F", "i", "s", "c", "a", "l", " ", "5", "5", "5">>,
   <<"N", "º", " ", "d", "a", " ", "N", "o", "t", "a", ":", " ", "7", "7">>,
   <<"N", "o", ".", " ", "d", "a", " ", "N", "o", "t", "a", " ", "8">>,
   <<"N", "o", "t", "a", " ", "4", "3", "2", "1">>,
   <<"N", "O", "T", "A", ":", "1", "2", "3", "4", "5">>,
   <<"n", "o", "t", "a", " ", "d", "e", " ", "d", "é", "b", "i", "t", "o", " ", "1", "2">>}

InitExtract == AppInit /\ fn = [op |-> "build", frags |-> <<>>]

AddExtractFrag(f) ==
  /\ fn.op = "build"
  /\ Len(fn.frags) < MaxFrags
  /\ fn' = [fn EXCEPT !.frags = Append(@, f)]
  /\ UNCHANGED <<appVars, runVars, hist>>

CallExtract ==
  /\ fn.op = "build"
  /\ fn' = [op |-> "extracted", frags |-> fn.frags, text |-> PdfTextOf(fn.frags),
            out |-> extractNFInfoFromPDF(PdfTextOf(fn.frags))]
  /\ UNCHANGED <<appVars, runVars, hist>>

NextExtract ==
  \/ \E f \in ExtractFrags : AddExtractFrag(f)
  \/ CallExtract

SpecExtract == InitExtract /\ [][NextExtract]_vars

\* what each pattern of the list, taken alone, captures in a fragment, read
\* off the fragment by hand: Null when the pattern does not match it
StatedCaptures(f) ==
  IF f = <<"N", "ú", "m", "e", "r", "o", " ", "d", "a", " ", "N", "o", "t", "a", ":", " ", "9", "8", "7", "6">>
      THEN <<<<"9", "8", "7", "6">>, Null, Null, Null, <<"9", "8", "7", "6">>>>
  ELSE IF f = <<"N", "ú", "m", "e", "r", "o", " ", "N", "o", "t", "a", " ", "F", "i", "s", "c", "a", "l", " ", "5", "5", "5">>
      THEN <<Null, <<"5", "5", "5">>, Null, Null, Null>>
  ELSE IF f = <<"N", "º", " ", "d", "a", " ", "N", "o", "t", "a", ":", " ", "7", "7">>
      THEN <<Null, Null, <<"7", "7">>, <<"7", "7">>, Null>>
  ELSE IF f = <<"N", "o", ".", " ", "d", "a", " ", "N", "o", "t", "a", " ", "8">>
      THEN <<Null, Null, Null, <<"8">>, Null>>
  ELSE IF f = <<"N", "o", "t", "a", " ", "4", "3", "2", "1">>
      THEN <<Null, Null, Null, Null, <<"4", "3", "2", "1">>>>
  ELSE IF f = <<"N", "O", "T", "A", ":", "1", "2", "3", "4", "5">>
      THEN <<Null, Null, Null, Null, <<"1", "2", "3", "4", "5">>>>
  ELSE IF f = <<"n", "o", "t", "a", " ", "d", "e", " ", "d", "é", "b", "i", "t", "o", " ", "1", "2">>
      THEN <<Null, Null, Null, Null, Null>>
  ELSE <<Null, Null, Null, Null, Null>>

\* the capture of pattern k in the leftmost fragment it matches, Null when it
\* matches none
StatedCapture(frags, k) ==
  LET at == {n \in 1..Len(frags) : StatedCaptures(frags[n])[k] /= Null} IN
  IF at = {} THEN Null ELSE StatedCaptures(frags[SetMin(at)])[k]

\* C14: extractNFInfoFromPDF returns the capture of the first pattern of the
\* list that matches the text, in the order label 1, label 2, label 3, label
\* 4, generic: the generic 'Nota' followed by four or more digits gives the
\* identifier only when none of the four label patterns matches; when no
\* pattern matches the identifier is null; the document type is ND when the
\* text holds the debit-note phrase and NFS otherwise, whatever the identifier
C14_PatternPriority ==
  fn.op = "extracted" =>
    LET hit == {k \in 1..5 : StatedCapture(fn.frags, k) /= Null} IN
    /\ fn.out.nf = (IF hit = {} THEN Null ELSE StatedCapture(fn.frags, SetMin(hit)))
    /\ (hit = {5}) <=> (/\ fn.out.nf = StatedCapture(fn.frags, 5)
                        /\ \A k \in 1..4 : StatedCapture(fn.frags, k) = Null
                        /\ fn.out.nf /= Null)
    /\ fn.out.tipo = (IF \E n \in 1..Len(fn.frags) :
                            fn.frags[n] = <<"n", "o", "t", "a", " ", "d", "e", " ", "d", "é", "b", "i", "t", "o", " ", "1", "2">>
                      THEN <<"N", "D">> ELSE <<"N", "F", "S">>)

\* C14 witness: a text that starts with a generic match and holds a label-1
\* match after it gives the label-1 capture; the type is NFS
C14_Witness ==
  /\ fn.op = "extracted"
  /\ Len(fn.frags) = 2
  /\ fn.frags[1] = <<"N", "o", "t", "a", " ", "4", "3", "2", "1">>
  /\ fn.frags[2] = <<"N", "ú", "m", "e", "r", "o", " ", "d", "a", " ", "N", "o", "t", "a", ":", " ", "9", "8", "7", "6">>
  /\ fn.out.nf = <<"9", "8", "7", "6">>
  /\ fn.out.tipo = <<"N", "F", "S">>

(***************************************************************************)
(* Direct calls of parseTableText under one variant, on table texts made of *)
(* lines chosen for that variant.                                           *)
(***************************************************************************)
\* Shopee: a description that ends in a hyphen, a line without hyphen, a
\* description with a hyphen inside, a number, an amount and a header.
\* Mercado Livre: two lines of zeros, a zero-padded number, a number without
\* zeros, an amount and a description.  Magalu: two lines with a zero amount,
\* two with an amount above zero, a description and a header.
VariantLines(m) ==
  IF m = "Shopee"
  THEN {<<"T", "a", "x", "a", " ", "d", "e", " ", "e", "n", "v", "i", "o", " ", "-">>,
        <<"F", "r", "e", "t", "e", " ", "g", "r", "á", "t", "i", "s">>,
        <<"C", "o", "l", "e", "t", "a", " ", "-", " ", "L", "o", "j", "a">>,
        <<"1", "2", "3", "4", "5", "6", "7">>,
        <<"R", "$", " ", "1", "5", "0", ",", "0", "0">>,
        <<"N", "ú", "m", "e", "r", "o">>}
  ELSE IF m = "Mercado Livre"
  THEN {<<"0", "0">>,
        <<"0", "0", "0">>,
        <<"0", "0", "0", "1", "2", "3", "4", "5", "6", "7">>,
        <<"1", "2", "3", "4", "5", "6", "7">>,
        <<"R", "$", " ", "1", "5", "0", ",", "0", "0">>,
        <<"T", "a", "r", "i", "f", "a", " ", "d", "e", " ", "v", "e", "n", "d", "a">>}
  ELSE {<<"R", "$", " ", "0", ",", "0", "0">>,
        <<"T", "a", "x", "a", " ", "0", ",", "0", "0">>,
        <<"R", "$", " ", "1", "5", "0", ",", "0", "0">>,
        <<"F", "r", "e", "t", "e", " ", "2", "0", ",", "0", "0", " ", "u", "n">>,
        <<"T", "a", "r", "i", "f", "a", " ", "d", "e", " ", "i", "n", "t", "e", "r", "m", "e", "d", "i", "a", "ç", "ã", "o">>,
        <<"V", "a", "l", "o", "r", " ", "t", "o", "t", "a", "l">>}

InitVariant ==
  /\ AppInit
  /\ fn \in {[op |-> "lines", lines |-> <<>>, marketplace |-> m] : m \in Marketplaces}

NextVariant ==
  \/ \E l \in VariantLines(fn.marketplace) : AddLine(l)
  \/ CallParse(fn.marketplace)

SpecVariant == InitVariant /\ [][NextVariant]_vars

IsDigits(s) == s /= Null /\ s /= <<>> /\ \A k \in 1..Len(s) : s[k] \in Digit

\* C15 as stated: every record of the Shopee and Mercado Livre parsers has an
\* identifier that is a non-empty string of digits, for Mercado Livre without
\* leading zeros; the records of the Magalu parser have none
C15_AsStated ==
  fn.op = "parsed" =>
    \A i \in 1..Len(fn.out) :
      /\ fn.marketplace = "Shopee" => IsDigits(fn.out[i].nf)
      /\ fn.marketplace = "Mercado Livre" =>
           (IsDigits(fn.out[i].nf) /\ fn.out[i].nf[1] /= "0")
      /\ fn.marketplace = "Magalu" => fn.out[i].nf = Null

\* a Shopee line that is a header, a 7-9-digit number or an amount
ShopeeClassified(l) ==
  \/ FullMatch(ReShopeeHeader, l)
  \/ FullMatch(ReNum79, l)
  \/ FullMatch(ReValor, l)

\* the descriptions the claim gives a Shopee text whose description lines
\* need no cleaning: from line i on, a line with a hyphen that is not a
\* header, number or amount is a description, joined with the line after it
\* when it ends in a hyphen and that line is none of the three; the joined
\* line is passed over
RECURSIVE StatedDescriptions(_, _)
StatedDescriptions(ls, i) ==
  IF i > Len(ls) THEN <<>>
  ELSE IF ShopeeClassified(ls[i]) \/ ~Includes(ls[i], <<"-">>)
       THEN StatedDescriptions(ls, i + 1)
  ELSE IF /\ ls[i][Len(ls[i])] = "-"
          /\ i < Len(ls)
          /\ ~ShopeeClassified(ls[i + 1])
       THEN <<ls[i] \o <<" ">> \o ls[i + 1]>> \o StatedDescriptions(ls, i + 2)
  ELSE <<ls[i]>> \o StatedDescriptions(ls, i + 1)

\* C19: in the Shopee parser a description line that ends in a hyphen is
\* joined with the next line, which is then not classified on its own,
\* exactly when there is a next line and it is not a header, a 7-9-digit
\* number or an amount; every number line and every amount line of the text
\* is in the identifier list and the amount list, whatever was joined
C19_ContinuationJoin ==
  (fn.op = "parsed" /\ fn.marketplace = "Shopee") =>
    LET lists == ShopeeLists(TextOfLines(fn.lines)) IN
    /\ lists.descricoes = StatedDescriptions(fn.lines, 1)
    /\ lists.numeros = SelectSeq(fn.lines, LAMBDA l : FullMatch(ReNum79, l))
    /\ [k \in 1..Len(lists.valores) |-> lists.valores[k].text]
         = AmountsIn(fn.lines, "Shopee")
    /\ Len(lists.valores) = Len(SelectSeq(fn.lines, LAMBDA l : FullMatch(ReValor, l)))

\* C19 witness: of four lines, the first ends in a hyphen and is joined with
\* the second, a description with a hyphen of its own that is consumed; the
\* third ends in a hyphen too and is not joined with the fourth, a number,
\* which becomes the identifier
C19_Witness ==
  /\ fn.op = "parsed" /\ fn.marketplace = "Shopee"
  /\ Len(fn.lines) = 4
  /\ fn.lines[1][Len(fn.lines[1])] = "-"
  /\ fn.lines[3] = fn.lines[1]
  /\ Includes(fn.lines[2], <<"-">>) /\ ~ShopeeClassified(fn.lines[2])
  /\ FullMatch(ReNum79, fn.lines[4])
  /\ ShopeeLists(TextOfLines(fn.lines)).descricoes
       = <<fn.lines[1] \o <<" ">> \o fn.lines[2], fn.lines[3]>>
  /\ ShopeeLists(TextOfLines(fn.lines)).numeros = <<fn.lines[4]>>

\* the lines of a Magalu text that hold an amount, and those among them whose
\* leftmost amount is zero
HoldsAmount(l) == Search(ReValorI, l)
ZeroAmount(l) == HoldsAmount(l) /\ ParseValor(ValorSearch(l)) = 0

\* C20: every record of the Magalu parser has an amount above zero; a line
\* whose amount parses to zero is added neither to the amounts nor to the
\* descriptions; there is one record per accepted amount, in the order of the
\* text
C20_MagaluPositiveAmounts ==
  (fn.op = "parsed" /\ fn.marketplace = "Magalu") =>
    LET lists    == MagaluLists(TextOfLines(fn.lines))
        accepted == SelectSeq(fn.lines,
                      LAMBDA l : /\ Ends(ReMagaluHeader, l, 1) = {}
                                 /\ HoldsAmount(l) /\ ~ZeroAmount(l))
    IN  /\ \A i \in 1..Len(fn.out) : fn.out[i].valor > 0
        /\ Len(fn.out) = Len(accepted)
        /\ Len(lists.valores) = Len(accepted)
        /\ \A i \in 1..Len(fn.out) :
             /\ fn.out[i].valorFormatado = ValorSearch(accepted[i])
             /\ fn.out[i].valor = ParseValor(ValorSearch(accepted[i]))
        /\ \A k \in 1..Len(fn.lines) :
             ZeroAmount(fn.lines[k]) =>
               /\ \A j \in 1..Len(lists.descricoes) : lists.descricoes[j] /= fn.lines[k]
               /\ \A j \in 1..Len(lists.valores) :
                    lists.valores[j].text /= ValorSearch(fn.lines[k])

\* C20 witness: a Magalu text with a zero amount line, a line with an amount
\* above zero, a description and another zero amount line gives one record,
\* with the amount of the second line and the description of the third
C20_Witness ==
  /\ fn.op = "parsed" /\ fn.marketplace = "Magalu"
  /\ Len(fn.lines) = 4
  /\ ZeroAmount(fn.lines[1])
  /\ HoldsAmount(fn.lines[2]) /\ ~ZeroAmount(fn.lines[2])
  /\ ~HoldsAmount(fn.lines[3]) /\ Ends(ReMagaluHeader, fn.lines[3], 1) = {}
  /\ ZeroAmount(fn.lines[4]) /\ fn.lines[4] /= fn.lines[1]
  /\ Len(fn.out) = 1
  /\ fn.out[1].valor = ParseValor(ValorSearch(fn.lines[2]))
  /\ fn.out[1].valor > 0
  /\ fn.out[1].descricao = fn.lines[3]

====
